---- MODULE Spec2Model ----
(***************************************************************************)
(* Player-state sync service: the session lock, the sync-sequence check    *)
(* and the connector's frame handlers, as a state machine over the         *)
(* players table, the audit log and the in-flight handler invocations.     *)
(* Every DB statement a handler awaits is one step; the synchronous code   *)
(* that follows an await belongs to the step of that await.                *)
(***************************************************************************)
EXTENDS Integers, Sequences, FiniteSets, TLC

\* ---------------------------------------------------------------- constants

ACTIVE_SERVER_TIMEOUT == 30000

SEQ_TOLERANCE == 10

RECOVERY_SEQ_TOLERANCE == 100

SERVER_HOP_RETRY_DELAY == 2000

SERVER_HOP_MAX_RETRIES == 5

\* `players.length > 100` of the REST batch route
BATCH_LIMIT == 100

DELTA_LIMITS ==
    [currency |-> 50000, currencySpent |-> 50000, xp |-> 100000,
     prestige |-> 1, permaTokens |-> 10, timePlayed |-> 7200]

\* ------------------------------------------------------------------- bounds

\* number of timeout periods the clock runs through in one behaviour
MaxTicks == 1

\* number of audit rows in one behaviour
MaxAudit == 2

\* number of audit rows beyond MaxAudit that committed syncs may add
MaxSyncRows == 2

\* number of entries in one batch recovery
MaxBatch == 2

\* the clock advances by one of these amounts (ms) and stops at 1 ms before
\* and at each multiple of the session timeout
TickSteps == {1, 29999, 30000}

\* game servers with a configured connection
Servers == {"serverA", "serverB"}

\* steam ids the game servers send documents for
Players == {"76561198000000001"}

\* steam ids with a row in the players table
Accounts == Players \cup {"76561198000000002"}

\* concurrently running handler invocations
Handlers == {1, 2}

\* sync_seq values of rows that exist before the service starts
StoredSeqs == {1}

\* syncSeq values carried by documents
DocSeqs == {0, 1, 10, 11, 102}

NULL == "null"

NoTime == -1

\* ---------------------------------------------------------------- documents

ZeroStats ==
    [currency |-> 0, currencyTotal |-> 0, currencySpent |-> 0, xp |-> 0,
     prestige |-> 0, permaTokens |-> 0, timePlayed |-> 0]

\* a tracking map (kills, standing for the five maps of the section): a
\* count per key
NoCounts == [k \in {} |-> 0]

OneCount(k, n) == [j \in {k} |-> n]

\* a tracking section is present (with its kills map) or absent
NoTracking == [present |-> FALSE, kills |-> NoCounts]

SomeTracking == [present |-> TRUE, kills |-> OneCount("76561198000000009", 5)]

\* an entry of the loadout array: {slot, item, count}, and whether slot is
\* a number and item a string
Slot(slot, item, count) ==
    [slot |-> slot, item |-> item, count |-> count,
     slotIsNumber |-> TRUE, itemIsString |-> TRUE]

\* a v2 document; loadout, perks and permaUnlocks are empty unless set
Doc(v, steamId, syncSeq, stats, tracking) ==
    [v |-> v, steamId |-> steamId, syncSeq |-> syncSeq,
     stats |-> stats, tracking |-> tracking,
     loadout |-> <<>>, perks |-> <<>>, permaUnlocks |-> <<>>]

\* the documents game servers send
Docs ==
    UNION {
        { Doc(2, p, d, ZeroStats, NoTracking) : d \in DocSeqs }
        \cup { Doc(2, p, 1, [ZeroStats EXCEPT !.currency = 50001], NoTracking),
               Doc(2, p, 1, ZeroStats, SomeTracking),
               Doc(1, p, 1, ZeroStats, NoTracking) }
        : p \in Players }

\* -------------------------------------------------------------------- state

VARIABLES
    now,            \* Date.now()
    players,        \* the players table, one row per steam id
    audit,          \* the sync_audit_logs table, in insertion order
    authenticated,  \* connectionInfo.authenticated per game server
    gameServers,    \* the game_servers table: is_active per server, and
                    \* whether a deactivation has yet to sweep its players
    connServerId,       \* connectionInfo.connServerId per connection
    pc,             \* where each handler invocation stands
    req,            \* the frame a running handler is serving
    inst,           \* the Player instance a running handler holds
    pend,           \* what a running handler will do at its next step
    batch,          \* the entries a running batch recovery has left, and
                    \* the results it has collected
    emitted,        \* the frame handed to a socket and not yet sent, if any
    clock,          \* Date.now() of a game server's plugin
    mounted,        \* where the plugin stands between mount() and unmount()
    kothBotSocket,  \* isConnected(): the service's socket is up
    pendingRequests,    \* this.pendingRequests: steamId -> pending request
    promises,       \* the promise of each requestPlayerData call
    timers,         \* the setTimeout callbacks not yet run or cleared
    activePlayers,  \* this.activePlayers: steamId -> {syncSeq}
    files,          \* the <steamId>.json files of the KOTH folder
    sessions,       \* PLAYER_CONNECTED events so far, per steamId
    online,         \* the steamIds in the game (connected, not yet disconnected)
    wire            \* frames sent to the service and not yet answered

\* the service's state
svars == <<now, players, audit, authenticated, gameServers, connServerId,
           pc, req, inst, pend, batch, emitted>>

\* the plugin's state
pvars == <<clock, mounted, kothBotSocket, pendingRequests, promises, timers,
           activePlayers, files, sessions, online, wire>>

vars == <<svars, pvars>>

\* a row of the players table (with its stats row)
NoRow ==
    [exists |-> FALSE, sync_seq |-> 0, active_server_id |-> NULL,
     active_since |-> NoTime, hasStats |-> FALSE, stats |-> ZeroStats,
     loadout |-> <<>>, perks |-> <<>>, permaUnlocks |-> <<>>, kills |-> NoCounts]

NewRow == [NoRow EXCEPT !.exists = TRUE]

\* Player.findWithFullData(steamId): the row of that steam_id, or none
findWithFullData(steamId) ==
    IF steamId \in DOMAIN players THEN players[steamId] ELSE NoRow

NoDoc == Doc(0, NULL, 0, ZeroStats, NoTracking)

NoReq == [op |-> "none", server |-> NULL, steamId |-> NULL, doc |-> NoDoc, at |-> NoTime]

\* what a handler has decided and will carry out at its next await
Pend(kind) ==
    [kind |-> kind, error |-> NULL, activeServer |-> NULL, expectedSeq |-> -1,
     cols |-> {}, flagged |-> FALSE, flagReason |-> <<>>, passed |-> FALSE,
     seqBefore |-> -1]

NoPend == Pend("none")

Frame(ev, to, steamId) ==
    [ev |-> ev, to |-> to, steamId |-> steamId, error |-> NULL,
     syncSeq |-> -1, flagged |-> FALSE, skipped |-> FALSE, activeServer |-> NULL,
     retryAfterMs |-> 0, maxRetries |-> 0, passed |-> FALSE,
     total |-> 0, successful |-> 0, failed |-> 0, results |-> <<>>,
     data |-> NoDoc, status |-> 0]

NoFrame == Frame("none", NULL, NULL)

\* a batch recovery: players.length, the entries not yet processed, results
NoBatch == [total |-> 0, todo |-> <<>>, results |-> <<>>]

\* ------------------------------------------------------------- Player model

\* mutant: the window includes its end point
wasRecentlyActive_inclusive(player, t, windowMs) ==
    IF player.active_server_id = NULL \/ player.active_since = NoTime
    THEN FALSE
    ELSE (t - player.active_since) <= windowMs

\* mutant: the elapsed time is compared with the window taken as seconds
wasRecentlyActive_seconds(player, t, windowMs) ==
    IF player.active_server_id = NULL \/ player.active_since = NoTime
    THEN FALSE
    ELSE (t - player.active_since) < windowMs \div 1000

\* Player.wasRecentlyActive(windowMs), evaluated at time t
wasRecentlyActive(player, t, windowMs) ==
    IF player.active_server_id = NULL \/ player.active_since = NoTime
    THEN FALSE
    ELSE (t - player.active_since) < windowMs

\* Player.setActiveServer: the instance after the assignment; save() then
\* writes the two changed columns
setActiveServer(player, serverId, t) ==
    [player EXCEPT !.active_server_id = serverId, !.active_since = t]

\* mutant: the UPDATE has no WHERE clause
clearServerActivePlayers_noWhere(table, sid) ==
    [p \in DOMAIN table |->
        IF table[p].exists
        THEN [table[p] EXCEPT !.active_server_id = NULL, !.active_since = NoTime]
        ELSE table[p]]

\* Player.clearServerActivePlayers: one UPDATE ... WHERE active_server_id
clearServerActivePlayers(table, sid) ==
    [p \in DOMAIN table |->
        IF table[p].exists /\ table[p].active_server_id = sid
        THEN [table[p] EXCEPT !.active_server_id = NULL, !.active_since = NoTime]
        ELSE table[p]]

\* ------------------------------------------------------------------ helpers

\* timeout periods begun so far
Ticks(t) == (t + 29999) \div 30000

\* the instants the clock stops at
OnGrid(t) == t % ACTIVE_SERVER_TIMEOUT \in {0, ACTIVE_SERVER_TIMEOUT - 1}

\* socket.emit of the service; a step of the service leaves the plugin alone
Emit(f) == emitted' = f /\ UNCHANGED pvars

NoEmit == emitted' = NoFrame /\ UNCHANGED pvars

Finish(h) ==
    /\ pc' = [pc EXCEPT ![h] = "idle"]
    /\ req' = [req EXCEPT ![h] = NoReq]
    /\ inst' = [inst EXCEPT ![h] = NoRow]
    /\ pend' = [pend EXCEPT ![h] = NoPend]

\* ------------------------------------------------------ plugin: constants

\* one step of the plugin's clock (ms)
PLUGIN_TICK == 2000

\* options.requestTimeout (ms)
REQUEST_TIMEOUT == 10000

\* the plugin's clock stops here
MaxClock == 10000

\* requestPlayerData calls in one run
MaxRequests == 2

\* PLAYER_CONNECTED events per steamId in one run
MaxSessions == 2

Requests == 1..MaxRequests

\* no entry in pendingRequests / activePlayers, no file
NoPending == [id |-> 0, retryCount |-> 0]

NoInfo == [present |-> FALSE, syncSeq |-> 0, session |-> 0]

NoFile == [present |-> FALSE, v |-> 0, syncSeq |-> 0, session |-> 0]

\* a promise returned by requestPlayerData: its state, the reason it was
\* rejected for, when it was issued, and the player:connect frames sent for it
NoPromise ==
    [state |-> "unissued", reason |-> NULL, steamId |-> NULL, issuedAt |-> NoTime, connects |-> 0]

\* the plugin before mount(): nothing on disk, nothing pending
PluginAtRest ==
    /\ clock = 0
    /\ mounted = "unmounted"
    /\ kothBotSocket = FALSE
    /\ pendingRequests = [p \in Players |-> NoPending]
    /\ promises = [id \in Requests |-> NoPromise]
    /\ timers = {}
    /\ activePlayers = [p \in Players |-> NoInfo]
    /\ files = [p \in Players |-> NoFile]
    /\ sessions = [p \in Players |-> 0]
    /\ online = {}
    /\ wire = <<>>

\* --------------------------------------------------------------------- Init

\* rows the table may hold when the service starts: none, or an unlocked row
StoredRows ==
    {NoRow} \cup {[NewRow EXCEPT !.sync_seq = q, !.hasStats = TRUE] : q \in StoredSeqs}

\* tables the service may start with; rows of players no server sends
\* documents for do not exist yet
StoredTables ==
    { t \in [Accounts -> StoredRows] : \A p \in Accounts \ Players : t[p] = NoRow }

\* a game_servers row as register() leaves it (exists: a row holds the
\* connection's token)
Registered == [exists |-> TRUE, is_active |-> TRUE, flagged |-> FALSE, sweeping |-> FALSE]

\* the rows the table may hold for a configured connection: none with its
\* token, a deactivated one, or an active one that is flagged or not
ServerRows ==
    { [Registered EXCEPT !.exists = FALSE], [Registered EXCEPT !.is_active = FALSE] }
    \cup { [Registered EXCEPT !.flagged = f] : f \in BOOLEAN }


Init ==
    /\ now = 0
    /\ players \in StoredTables
    /\ audit = <<>>
    /\ authenticated = [s \in Servers |-> FALSE]
    /\ gameServers = [s \in Servers |-> Registered]
    /\ connServerId = [s \in Servers |-> NULL]
    /\ pc = [h \in Handlers |-> "idle"]
    /\ req = [h \in Handlers |-> NoReq]
    /\ inst = [h \in Handlers |-> NoRow]
    /\ pend = [h \in Handlers |-> NoPend]
    /\ batch = [h \in Handlers |-> NoBatch]
    /\ emitted = NoFrame
    /\ PluginAtRest

\* ------------------------------------------------------------------- clock

\* no frame is waiting to leave on a socket
Quiet == emitted = NoFrame

\* socket.emit: the frame leaves before the next event is handled
Deliver ==
    /\ ~Quiet
    /\ NoEmit
    /\ UNCHANGED <<now, players, audit, authenticated, gameServers, connServerId, pc, req, inst, pend, batch>>

Tick ==
    /\ Quiet
    /\ \E d \in TickSteps :
          /\ Ticks(now + d) <= MaxTicks
          /\ OnGrid(now + d)
          /\ now' = now + d
    /\ UNCHANGED <<players, audit, authenticated, gameServers, connServerId, pc, req, inst, pend, batch>>
    /\ NoEmit

\* --------------------------------------------------------------- connection

\* mutant: the lookup leaves out is_active
findByToken_anyStatus(s) ==
    IF gameServers[s].exists THEN s ELSE NULL

\* GameServer.findByToken: the server_id of the active row with the token of
\* connection s, if there is one
findByToken(s) ==
    IF gameServers[s].exists /\ gameServers[s].is_active THEN s ELSE NULL

\* validateServerToken: a flagged server is logged and let through
validateServerToken(s) == findByToken(s)

\* the 'disconnect' handler's sweep: only a connection that authenticated
\* before knows its connServerId
SweepOnDisconnect(table, s) ==
    IF connServerId[s] # NULL THEN clearServerActivePlayers(table, connServerId[s]) ELSE table

\* socket.on('connect'): findByToken returns the record of an active server;
\* otherwise the socket is closed again, which runs the 'disconnect' handler
SocketConnect(s) ==
    /\ Quiet
    /\ ~authenticated[s]
    /\ IF validateServerToken(s) # NULL
       THEN /\ authenticated' = [authenticated EXCEPT ![s] = TRUE]
            /\ connServerId' = [connServerId EXCEPT ![s] = validateServerToken(s)]
            /\ Emit([Frame("auth:success", s, NULL) EXCEPT !.activeServer = s])
            /\ UNCHANGED players
       ELSE /\ players' = SweepOnDisconnect(players, s)
            /\ UNCHANGED <<authenticated, connServerId>>
            /\ NoEmit
    /\ UNCHANGED <<now, audit, gameServers, pc, req, inst, pend, batch>>

\* socket.on('disconnect'): drop the flag and sweep the server's players
SocketDisconnect(s) ==
    /\ Quiet
    /\ authenticated[s]
    /\ authenticated' = [authenticated EXCEPT ![s] = FALSE]
    /\ players' = SweepOnDisconnect(players, s)
    /\ UNCHANGED <<now, audit, gameServers, connServerId, pc, req, inst, pend, batch>>
    /\ NoEmit

\* ----------------------------------------------------------- administration

\* deactivateServer up to server.update({is_active: false, ...}); the open
\* connection of the server is left as it is
DeactivateServer(s) ==
    /\ Quiet
    /\ gameServers[s].is_active
    /\ gameServers' = [gameServers EXCEPT ![s].is_active = FALSE, ![s].sweeping = TRUE]
    /\ UNCHANGED <<now, players, audit, authenticated, connServerId, pc, req, inst, pend, batch>>
    /\ NoEmit

\* deactivateServer's Player.clearServerActivePlayers(connServerId)
DeactivateSweep(s) ==
    /\ Quiet
    /\ gameServers[s].sweeping
    /\ players' = clearServerActivePlayers(players, s)
    /\ gameServers' = [gameServers EXCEPT ![s].sweeping = FALSE]
    /\ UNCHANGED <<now, audit, authenticated, connServerId, pc, req, inst, pend, batch>>
    /\ NoEmit

\* ------------------------------------------------------------ dataValidator

\* mutant: any id of 17 digits or more is taken
validateSteamId_atLeast17(data) ==
    IF "steamId" \notin DOMAIN data \/ data.steamId = NULL
    THEN [valid |-> FALSE, error |-> "Steam ID is required"]
    ELSE IF Len(data.steamId) < 17
         THEN [valid |-> FALSE, error |-> "Steam ID must be exactly 17 digits"]
         ELSE [valid |-> TRUE, error |-> NULL]

\* validateSteamId: present and exactly 17 digits (model ids hold digits only)
validateSteamId(data) ==
    IF "steamId" \notin DOMAIN data \/ data.steamId = NULL
    THEN [valid |-> FALSE, error |-> "Steam ID is required"]
    ELSE IF Len(data.steamId) # 17
         THEN [valid |-> FALSE, error |-> "Steam ID must be exactly 17 digits"]
         ELSE [valid |-> TRUE, error |-> NULL]

\* the numeric stats validateV2PlayerFormat looks at
NegativeStats(stats) == { f \in DOMAIN stats : stats[f] < 0 }

validateV2PlayerFormat(data) ==
    LET errors ==
            (IF data.v # 2 THEN {"Invalid version"} ELSE {})
            \cup (IF validateSteamId(data).valid THEN {} ELSE {validateSteamId(data).error})
            \cup { "cannot be negative" : f \in NegativeStats(data.stats) }
            \cup (IF data.stats.prestige < 0 \/ data.stats.prestige > 100
                  THEN {"stats.prestige must be between 0 and 100"} ELSE {})
            \cup { "slot must be a number" :
                     i \in { j \in 1..Len(data.loadout) : ~data.loadout[j].slotIsNumber } }
            \cup { "item must be a string" :
                     i \in { j \in 1..Len(data.loadout) : ~data.loadout[j].itemIsString } }
    IN  [valid |-> errors = {}, errors |-> errors]

\* validateV2TrackingFormat reads v and steamId of the object it is given
validateV2TrackingFormat(data) ==
    LET errors ==
            (IF "v" \in DOMAIN data /\ data.v = 2 THEN {} ELSE {"Invalid version"})
            \cup (IF validateSteamId(data).valid THEN {} ELSE {validateSteamId(data).error})
            \cup { "cannot be negative" : k \in { j \in DOMAIN data.kills : data.kills[j] < 0 } }
    IN  [valid |-> errors = {}, errors |-> errors]

\* { v: 2, steamId, ...trackingData }
WithHeader(steamId, tracking) ==
    [v |-> 2, steamId |-> steamId, kills |-> tracking.kills]

\* the bare tracking section, as the disconnect and recovery handlers pass it
Bare(tracking) == [kills |-> tracking.kills]

\* validateV2Format on a combined document (embedded tracking)
validateV2Format(data) ==
    LET playerResult == validateV2PlayerFormat(data)
    IN  IF data.tracking.present
        THEN LET trackingResult ==
                     validateV2TrackingFormat(WithHeader(data.steamId, data.tracking))
             IN  [valid |-> playerResult.valid /\ trackingResult.valid,
                  errors |-> playerResult.errors \cup trackingResult.errors]
        ELSE playerResult

\* mutant: the result has the shape the handlers read, {valid, violations}
checkDeltaLimits_validShape(oldData, newData) ==
    LET gain(f) == newData.stats[f] - oldData.stats[f]
        one(f, text) == IF gain(f) > DELTA_LIMITS[f] THEN <<text>> ELSE <<>>
        reasons ==
            one("currency", "Currency gain") \o
            one("currencySpent", "Currency spent") \o
            one("xp", "XP gain") \o
            one("prestige", "Prestige gain") \o
            one("permaTokens", "Perma tokens gain") \o
            one("timePlayed", "Time played increase")
    IN  [valid |-> Len(reasons) = 0, violations |-> reasons]

\* mutant: a gain equal to the limit is flagged
checkDeltaLimits_atLimit(oldData, newData) ==
    LET gain(f) == newData.stats[f] - oldData.stats[f]
        one(f, text) == IF gain(f) >= DELTA_LIMITS[f] THEN <<text>> ELSE <<>>
        reasons ==
            one("currency", "Currency gain") \o
            one("currencySpent", "Currency spent") \o
            one("xp", "XP gain") \o
            one("prestige", "Prestige gain") \o
            one("permaTokens", "Perma tokens gain") \o
            one("timePlayed", "Time played increase")
    IN  [flagged |-> Len(reasons) > 0, reasons |-> reasons]

\* checkDeltaLimits: the reasons, in the order the checks are made
checkDeltaLimits(oldData, newData) ==
    LET gain(f) == newData.stats[f] - oldData.stats[f]
        one(f, text) == IF gain(f) > DELTA_LIMITS[f] THEN <<text>> ELSE <<>>
        reasons ==
            one("currency", "Currency gain") \o
            one("currencySpent", "Currency spent") \o
            one("xp", "XP gain") \o
            one("prestige", "Prestige gain") \o
            one("permaTokens", "Perma tokens gain") \o
            one("timePlayed", "Time played increase")
    IN  [flagged |-> Len(reasons) > 0, reasons |-> reasons]

\* mutant: a document carrying the stored syncSeq counts as stale
validateSyncSequence_rejectEqual(dbSyncSeq, newSyncSeq, tolerance) ==
    IF newSyncSeq <= dbSyncSeq
    THEN [valid |-> FALSE, reason |-> "stale data"]
    ELSE IF newSyncSeq - dbSyncSeq > tolerance
         THEN [valid |-> FALSE, reason |-> "jump exceeds tolerance"]
         ELSE [valid |-> TRUE, reason |-> NULL]

\* validateSyncSequence: stale, or too far ahead
validateSyncSequence(dbSyncSeq, newSyncSeq, tolerance) ==
    IF newSyncSeq < dbSyncSeq
    THEN [valid |-> FALSE, reason |-> "stale data"]
    ELSE IF newSyncSeq - dbSyncSeq > tolerance
         THEN [valid |-> FALSE, reason |-> "jump exceeds tolerance"]
         ELSE [valid |-> TRUE, reason |-> NULL]

\* ------------------------------------------------------ gameDataTransformer

\* `count || 1`
CountOrOne(count) == IF count = 0 THEN 1 ELSE count

\* dbToV2Player: a row without stats yields the default stats; loadout,
\* perks and permaUnlocks are mapped row by row; no tracking section
dbToV2Player(player) ==
    [v |-> 2, steamId |-> NULL, syncSeq |-> player.sync_seq,
     stats |-> IF player.hasStats THEN player.stats ELSE ZeroStats,
     tracking |-> NoTracking,
     loadout |-> [i \in 1..Len(player.loadout) |->
                    Slot(player.loadout[i].slot, player.loadout[i].item,
                         CountOrOne(player.loadout[i].count))],
     perks |-> player.perks,
     permaUnlocks |-> player.permaUnlocks]

\* ------------------------------------------------------------- sync engine

\* `if (!deltaCheck.valid)`: a property the object lacks is undefined
DeltaBranchTaken(deltaCheck) ==
    IF "valid" \in DOMAIN deltaCheck THEN ~deltaCheck.valid ELSE TRUE

\* `deltaCheck.violations.join('; ')` throws a TypeError on undefined
JoinThrows(deltaCheck) == "violations" \notin DOMAIN deltaCheck

JoinedViolations(deltaCheck) ==
    IF "violations" \in DOMAIN deltaCheck THEN deltaCheck.violations ELSE <<>>

\* the delta step of the three sync handlers: throw, flag, or pass
DeltaStep(player, doc, base) ==
    LET deltaCheck == checkDeltaLimits(dbToV2Player(player), doc)
    IN  IF DeltaBranchTaken(deltaCheck)
        THEN IF JoinThrows(deltaCheck)
             THEN [Pend("throw") EXCEPT !.error = "TypeError", !.passed = TRUE]
             ELSE [base EXCEPT !.flagged = TRUE,
                               !.flagReason = base.flagReason \o JoinedViolations(deltaCheck)]
        ELSE base

\* handlePeriodicSync / handlePlayerDisconnect after the row was read:
\* not found, ownership, sequence, delta; then the writes
SyncDecision(player, serverId, doc) ==
    IF ~player.exists
    THEN [Pend("reject") EXCEPT !.error = "player_not_found"]
    ELSE IF player.active_server_id # serverId
    THEN [Pend("reject") EXCEPT !.error = "not_session_owner",
                                 !.activeServer = player.active_server_id]
    ELSE IF ~validateSyncSequence(player.sync_seq, doc.syncSeq, SEQ_TOLERANCE).valid
    THEN [Pend("reject") EXCEPT !.error = "invalid_sync_seq",
                                 !.expectedSeq = player.sync_seq]
    ELSE DeltaStep(player, doc,
                   [Pend("commit") EXCEPT !.passed = TRUE,
                                          !.cols = IF doc.syncSeq # player.sync_seq
                                                   THEN {"sync_seq"} ELSE {}])

\* the elements of a sequence
Range(seq) == { seq[i] : i \in 1..Len(seq) }

\* v2PlayerToDbParts(...).loadout: {slot, family, item, count || 1}
LoadoutParts(loadout) ==
    [i \in 1..Len(loadout) |->
        [slot |-> loadout[i].slot, item |-> loadout[i].item,
         count |-> CountOrOne(loadout[i].count)]]

\* LoadoutSlot.destroy / PlayerPerk.destroy, then one create per entry
replaceRows(stored, parts) == parts

\* PlayerPerk.create fails on the unique (player_id, perk_name)
PerksCollide(perks) ==
    \E i, j \in 1..Len(perks) : i # j /\ perks[i] = perks[j]

\* PlayerPermanentUnlock.upsert per entry: a name that has a row keeps it, a
\* new name gets a row
RECURSIVE upsertNames(_, _)
upsertNames(stored, names) ==
    IF names = <<>> THEN stored
    ELSE upsertNames(IF Head(names) \in Range(stored) THEN stored
                     ELSE Append(stored, Head(names)),
                     Tail(names))

\* mutant: the upsert adds the document's count to the stored one
upsertCounts_add(stored, counts) ==
    [k \in DOMAIN stored \cup DOMAIN counts |->
        IF k \in DOMAIN counts
        THEN counts[k] + (IF k \in DOMAIN stored THEN stored[k] ELSE 0)
        ELSE stored[k]]

\* PlayerKill.upsert (and the other four tracking tables) per key of the
\* map: the row of the key holds the document's value, other rows stay
upsertCounts(stored, counts) ==
    [k \in DOMAIN stored \cup DOMAIN counts |->
        IF k \in DOMAIN counts THEN counts[k] ELSE stored[k]]

\* the statements of the transaction, applied to the row at commit:
\* player.update writes the changed columns, the stats row is upserted,
\* loadout and perks are replaced, permanent unlocks and (when the document
\* has a tracking section) the tracking maps are upserted
ApplySync(row, cols, doc) ==
    [row EXCEPT !.sync_seq = IF "sync_seq" \in cols THEN doc.syncSeq ELSE @,
                !.hasStats = TRUE,
                !.stats = doc.stats,
                !.loadout = replaceRows(@, LoadoutParts(doc.loadout)),
                !.perks = replaceRows(@, doc.perks),
                !.permaUnlocks = upsertNames(@, doc.permaUnlocks),
                !.kills = IF doc.tracking.present
                          THEN upsertCounts(@, doc.tracking.kills) ELSE @]

\* the second player.update of handlePlayerDisconnect, same transaction
ClearLock(row) ==
    [row EXCEPT !.active_server_id = NULL, !.active_since = NoTime]

\* mutant: every thrown error is reported as sync:error
ErrorEvent_alwaysSync(op) == "sync:error"

ErrorEvent(op) ==
    CASE op = "connect" -> "player:error"
      [] op = "sync" -> "sync:error"
      [] op = "disconnect" -> "disconnect:error"
      [] OTHER -> "recovery:error"

AckEvent(op) ==
    CASE op = "connect" -> "player:data"
      [] op = "sync" -> "sync:ack"
      [] op = "disconnect" -> "disconnect:ack"
      [] OTHER -> "recovery:ack"

AuditKind(op) ==
    CASE op = "connect" -> "connect"
      [] op = "sync" -> "periodic"
      [] op = "disconnect" -> "disconnect"
      [] OTHER -> "crash_recovery"

InFlight == { h \in Handlers : pc[h] # "idle" }

\* a new invocation takes the first free slot
Free(h) == pc[h] = "idle" /\ \A g \in Handlers : pc[g] = "idle" => h <= g

\* room for the audit rows the running and the new connects append
ConnectBudget ==
    Len(audit) + Cardinality({ h \in Handlers : req[h].op = "connect" }) < MaxAudit

\* room for the audit rows of syncs that commit
SyncBudget == Len(audit) + Cardinality(InFlight) < MaxAudit + MaxSyncRows

\* ------------------------------------------------------------------ connect

\* handlePlayerConnect once the player row is loaded: wait, or claim (the
\* handler notes the server whose session it found expired)
ConnectCheck(h, s, p, player) ==
    IF /\ player.active_server_id # NULL
       /\ player.active_server_id # s
       /\ wasRecentlyActive(player, now, ACTIVE_SERVER_TIMEOUT)
    THEN /\ Emit([Frame("player:wait", s, p) EXCEPT
                     !.activeServer = player.active_server_id,
                     !.retryAfterMs = SERVER_HOP_RETRY_DELAY,
                     !.maxRetries = SERVER_HOP_MAX_RETRIES])
         /\ Finish(h)
    ELSE /\ pc' = [pc EXCEPT ![h] = "save"]
         /\ req' = [req EXCEPT ![h] = [op |-> "connect", server |-> s, steamId |-> p, doc |-> NoDoc, at |-> NoTime]]
         /\ inst' = [inst EXCEPT ![h] = setActiveServer(player, s, now)]
         /\ pend' = [pend EXCEPT ![h] =
                [Pend("save") EXCEPT
                    !.activeServer = IF player.active_server_id # s
                                     THEN player.active_server_id ELSE NULL,
                    !.cols =
                    (IF player.active_server_id # s THEN {"active_server_id"} ELSE {})
                    \cup (IF player.active_since # now THEN {"active_since"} ELSE {})]]
         /\ NoEmit

\* socket.on('player:connect') up to and including the first findWithFullData
RecvConnect(h, s, p) ==
    /\ Quiet
    /\ Free(h)
    /\ ConnectBudget
    /\ IF ~authenticated[s]
       THEN /\ Emit([Frame("player:error", s, p) EXCEPT !.error = "Server not authenticated"])
            /\ UNCHANGED <<pc, req, inst, pend>>
       ELSE IF ~players[p].exists
            THEN /\ pc' = [pc EXCEPT ![h] = "create"]
                 /\ req' = [req EXCEPT ![h] = [op |-> "connect", server |-> s, steamId |-> p, doc |-> NoDoc, at |-> NoTime]]
                 /\ UNCHANGED <<inst, pend>>
                 /\ NoEmit
            ELSE ConnectCheck(h, s, p, players[p])
    /\ UNCHANGED <<now, players, audit, authenticated, gameServers, connServerId, batch>>

\* Player.create({steam_id, sync_seq: 0}); steam_id is unique
ConnectCreate(h) ==
    /\ Quiet
    /\ pc[h] = "create"
    /\ IF players[req[h].steamId].exists
       THEN /\ Emit([Frame("player:error", req[h].server, req[h].steamId) EXCEPT !.error = "Validation error"])
            /\ Finish(h)
            /\ UNCHANGED players
       ELSE /\ players' = [players EXCEPT ![req[h].steamId] = NewRow]
            /\ pc' = [pc EXCEPT ![h] = "stats"]
            /\ UNCHANGED <<req, inst, pend>>
            /\ NoEmit
    /\ UNCHANGED <<now, audit, authenticated, gameServers, connServerId, batch>>

\* PlayerStats.create({player_id})
ConnectCreateStats(h) ==
    /\ Quiet
    /\ pc[h] = "stats"
    /\ players' = [players EXCEPT ![req[h].steamId].hasStats = TRUE,
                                  ![req[h].steamId].stats = ZeroStats]
    /\ pc' = [pc EXCEPT ![h] = "reload"]
    /\ UNCHANGED <<now, audit, authenticated, gameServers, connServerId, req, inst, pend, batch>>
    /\ NoEmit

\* the second findWithFullData, then the same check
ConnectReload(h) ==
    /\ Quiet
    /\ pc[h] = "reload"
    /\ ConnectCheck(h, req[h].server, req[h].steamId, players[req[h].steamId])
    /\ UNCHANGED <<now, players, audit, authenticated, gameServers, connServerId, batch>>

\* the columns save() writes: those the instance changed
SaveRow(row, player, cols) ==
    [row EXCEPT !.active_server_id = IF "active_server_id" \in cols
                                     THEN player.active_server_id ELSE @,
                !.active_since = IF "active_since" \in cols
                                 THEN player.active_since ELSE @]

\* this.save() of setActiveServer / clearActiveServer reaching the database
Save(h) ==
    /\ Quiet
    /\ pc[h] = "save"
    /\ players' = [players EXCEPT ![req[h].steamId] = SaveRow(@, inst[h], pend[h].cols)]
    /\ IF req[h].op = "connect"
       THEN /\ pc' = [pc EXCEPT ![h] = "log"]
            /\ pend' = [pend EXCEPT ![h] = Pend("log")]
       ELSE /\ pc' = [pc EXCEPT ![h] = "tx"]
            /\ pend' = [pend EXCEPT ![h] = [@ EXCEPT !.kind = "commit"]]
    /\ UNCHANGED <<now, audit, authenticated, gameServers, connServerId, req, inst, batch>>
    /\ NoEmit

\* what handlePlayerConnect returns when it has claimed the player:
\* {success, status, player, syncSeq}
ConnectResult(steamId, player) ==
    [success |-> TRUE, status |-> "ok",
     player |-> [dbToV2Player(player) EXCEPT !.steamId = steamId],
     syncSeq |-> player.sync_seq]

\* `result.data` as the connector reads it: undefined (no document) when the
\* result has no such property
ResultData(result) ==
    IF "data" \in DOMAIN result THEN result.data ELSE NoDoc

\* one entry of results: {steamId, success, syncSeq, skipped, flagged}
BatchResult(steamId, success, syncSeq, skipped, flagged) ==
    [steamId |-> steamId, success |-> success, syncSeq |-> syncSeq,
     skipped |-> skipped, flagged |-> flagged]

\* a batch recovery between two entries
BatchReq(s) == [op |-> "batch", server |-> s, steamId |-> NULL, doc |-> NoDoc, at |-> NoTime]

\* SyncAuditLog.logSync, then the handler returns and the connector answers
\* (in a batch recovery: pushes the entry's result and goes on)
LogSync(h) ==
    /\ Quiet
    /\ pc[h] = "log"
    /\ audit' = Append(audit,
            [kind |-> AuditKind(req[h].op), server |-> req[h].server,
             steamId |-> req[h].steamId,
             seqBefore |-> pend[h].seqBefore,
             seqAfter |-> IF req[h].op = "connect" THEN inst[h].sync_seq ELSE req[h].doc.syncSeq,
             flagged |-> pend[h].flagged])
    /\ IF req[h].op = "batch"
       THEN /\ batch' = [batch EXCEPT ![h].results =
                    Append(@, BatchResult(req[h].steamId, TRUE, req[h].doc.syncSeq,
                                          FALSE, pend[h].flagged))]
            /\ pc' = [pc EXCEPT ![h] = "batch"]
            /\ req' = [req EXCEPT ![h] = BatchReq(req[h].server)]
            /\ inst' = [inst EXCEPT ![h] = NoRow]
            /\ pend' = [pend EXCEPT ![h] = NoPend]
            /\ NoEmit
       ELSE /\ Emit([Frame(AckEvent(req[h].op), req[h].server, req[h].steamId) EXCEPT
                        !.syncSeq = IF req[h].op = "connect"
                                    THEN ConnectResult(req[h].steamId, inst[h]).syncSeq
                                    ELSE req[h].doc.syncSeq,
                        !.data = IF req[h].op = "connect"
                                 THEN ResultData(ConnectResult(req[h].steamId, inst[h]))
                                 ELSE NoDoc,
                        !.flagged = pend[h].flagged,
                        !.passed = pend[h].passed])
            /\ Finish(h)
            /\ UNCHANGED batch
    /\ UNCHANGED <<now, players, authenticated, gameServers, connServerId>>

\* ----------------------------------------------------- periodic / disconnect

\* the request a running sync still reads: the whole document if it is to be
\* written, its syncSeq if it passed the checks; a PeriodicSync that passed
\* them carries the time it was received
Kept(op, s, doc, decision) ==
    [op |-> op, server |-> s, steamId |-> doc.steamId,
     doc |-> IF decision.kind = "commit" THEN doc
             ELSE IF decision.passed THEN [NoDoc EXCEPT !.syncSeq = doc.syncSeq]
             ELSE NoDoc,
     at |-> IF op = "sync" /\ decision.passed THEN now ELSE NoTime]

\* the instance a running sync still reads
KeptRow(row, decision) == IF decision.kind = "commit" THEN row ELSE NoRow

\* socket.on('player:sync'): connector validation, engine validation,
\* transaction(), findWithFullData and the checks that follow it
RecvSync(h, s, doc) ==
    /\ Quiet
    /\ Free(h)
    /\ SyncBudget
    /\ IF ~authenticated[s]
       THEN /\ Emit([Frame("sync:error", s, NULL) EXCEPT !.error = "Server not authenticated"])
            /\ UNCHANGED <<pc, req, inst, pend>>
       ELSE IF ~validateV2Format(doc).valid \/ ~validateV2PlayerFormat(doc).valid
       THEN /\ Emit([Frame("sync:error", s, doc.steamId) EXCEPT !.error = "validation_failed"])
            /\ UNCHANGED <<pc, req, inst, pend>>
       ELSE IF doc.tracking.present
               /\ ~validateV2TrackingFormat(WithHeader(doc.steamId, doc.tracking)).valid
       THEN /\ Emit([Frame("sync:error", s, doc.steamId) EXCEPT !.error = "tracking_validation_failed"])
            /\ UNCHANGED <<pc, req, inst, pend>>
       ELSE /\ pc' = [pc EXCEPT ![h] = "tx"]
            /\ pend' = [pend EXCEPT ![h] = SyncDecision(findWithFullData(doc.steamId), s, doc)]
            /\ req' = [req EXCEPT ![h] = Kept("sync", s, doc, pend'[h])]
            /\ inst' = [inst EXCEPT ![h] = KeptRow(findWithFullData(doc.steamId), pend'[h])]
            /\ NoEmit
    /\ UNCHANGED <<now, players, audit, authenticated, gameServers, connServerId, batch>>

\* socket.on('player:disconnect'): as above, but the engine validates the
\* bare tracking section
RecvDisconnect(h, s, doc) ==
    /\ Quiet
    /\ Free(h)
    /\ SyncBudget
    /\ IF ~authenticated[s]
       THEN /\ Emit([Frame("disconnect:error", s, NULL) EXCEPT !.error = "Server not authenticated"])
            /\ UNCHANGED <<pc, req, inst, pend>>
       ELSE IF ~validateV2Format(doc).valid \/ ~validateV2PlayerFormat(doc).valid
       THEN /\ Emit([Frame("disconnect:error", s, doc.steamId) EXCEPT !.error = "validation_failed"])
            /\ UNCHANGED <<pc, req, inst, pend>>
       ELSE IF doc.tracking.present
               /\ ~validateV2TrackingFormat(Bare(doc.tracking)).valid
       THEN /\ Emit([Frame("disconnect:error", s, doc.steamId) EXCEPT !.error = "tracking_validation_failed"])
            /\ UNCHANGED <<pc, req, inst, pend>>
       ELSE /\ pc' = [pc EXCEPT ![h] = "tx"]
            /\ pend' = [pend EXCEPT ![h] = SyncDecision(findWithFullData(doc.steamId), s, doc)]
            /\ req' = [req EXCEPT ![h] = Kept("disconnect", s, doc, pend'[h])]
            /\ inst' = [inst EXCEPT ![h] = KeptRow(findWithFullData(doc.steamId), pend'[h])]
            /\ NoEmit
    /\ UNCHANGED <<now, players, audit, authenticated, gameServers, connServerId, batch>>

\* the end of the transaction: commit of the writes, or rollback and the
\* error frame
TxEnd(h) ==
    /\ Quiet
    /\ pc[h] = "tx"
    /\ IF pend[h].kind = "commit" /\ ~PerksCollide(req[h].doc.perks)
       THEN /\ players' = [players EXCEPT ![req[h].steamId] =
                    IF req[h].op = "disconnect"
                    THEN ClearLock(ApplySync(@, pend[h].cols, req[h].doc))
                    ELSE ApplySync(@, pend[h].cols, req[h].doc)]
            /\ pc' = [pc EXCEPT ![h] = "log"]
            /\ inst' = [inst EXCEPT ![h].sync_seq = req[h].doc.syncSeq]
            /\ pend' = [pend EXCEPT ![h].seqBefore = req[h].doc.syncSeq]
            /\ UNCHANGED <<req>>
            /\ NoEmit
       ELSE /\ Emit([Frame(ErrorEvent(req[h].op), req[h].server, req[h].steamId) EXCEPT
                        !.error = IF pend[h].kind = "commit"
                                  THEN "Validation error" ELSE pend[h].error,
                        !.activeServer = pend[h].activeServer,
                        !.syncSeq = pend[h].expectedSeq,
                        !.passed = pend[h].passed])
            /\ Finish(h)
            /\ UNCHANGED players
    /\ UNCHANGED <<now, audit, authenticated, gameServers, connServerId, batch>>

\* ----------------------------------------------------------- crash recovery

\* handleCrashRecovery after the row was read: not found; the lenient
\* sequence check and the delta check, which only flag; stale documents are
\* skipped; otherwise the lock is cleared and the document written
RecoveryDecision(player, doc) ==
    IF ~player.exists
    THEN [Pend("reject") EXCEPT !.error = "player_not_found"]
    ELSE LET seqValidation ==
                 validateSyncSequence(player.sync_seq, doc.syncSeq, RECOVERY_SEQ_TOLERANCE)
             checked ==
                 DeltaStep(player, doc,
                     [Pend("save") EXCEPT
                         !.passed = TRUE,
                         !.flagged = ~seqValidation.valid,
                         !.flagReason = IF seqValidation.valid THEN <<>>
                                        ELSE <<"Crash recovery seq mismatch">>,
                         !.cols = (IF player.active_server_id # NULL
                                   THEN {"active_server_id"} ELSE {})
                                  \cup (IF player.active_since # NoTime
                                        THEN {"active_since"} ELSE {})
                                  \cup (IF doc.syncSeq # player.sync_seq
                                        THEN {"sync_seq"} ELSE {})])
         IN  IF checked.kind = "throw"
             THEN checked
             ELSE IF doc.syncSeq < player.sync_seq
                  THEN [Pend("skip") EXCEPT !.passed = TRUE]
                  ELSE checked

\* socket.on('player:crash-recovery'): connector validation, engine
\* validation of the bare tracking section, findWithFullData and the checks
\* that follow it; nothing is awaited before an error or a skip is returned
RecvRecovery(h, s, doc) ==
    /\ Quiet
    /\ Free(h)
    /\ SyncBudget
    /\ IF ~authenticated[s]
       THEN /\ Emit([Frame("recovery:error", s, NULL) EXCEPT !.error = "Server not authenticated"])
            /\ UNCHANGED <<pc, req, inst, pend>>
       ELSE IF ~validateV2Format(doc).valid \/ ~validateV2PlayerFormat(doc).valid
       THEN /\ Emit([Frame("recovery:error", s, doc.steamId) EXCEPT !.error = "validation_failed"])
            /\ UNCHANGED <<pc, req, inst, pend>>
       ELSE IF doc.tracking.present
               /\ ~validateV2TrackingFormat(Bare(doc.tracking)).valid
       THEN /\ Emit([Frame("recovery:error", s, doc.steamId) EXCEPT !.error = "tracking_validation_failed"])
            /\ UNCHANGED <<pc, req, inst, pend>>
       ELSE \E decision \in {RecoveryDecision(findWithFullData(doc.steamId), doc)} :
                IF decision.kind = "save"
                THEN /\ pc' = [pc EXCEPT ![h] = "save"]
                     /\ req' = [req EXCEPT ![h] = [op |-> "recovery", server |-> s, steamId |-> doc.steamId, doc |-> doc, at |-> NoTime]]
                     /\ inst' = [inst EXCEPT ![h] = ClearLock(findWithFullData(doc.steamId))]
                     /\ pend' = [pend EXCEPT ![h] = decision]
                     /\ NoEmit
                ELSE /\ IF decision.kind = "skip"
                        THEN Emit([Frame("recovery:ack", s, doc.steamId) EXCEPT
                                        !.skipped = TRUE, !.passed = TRUE])
                        ELSE Emit([Frame("recovery:error", s, doc.steamId) EXCEPT
                                        !.error = decision.error,
                                        !.passed = decision.passed])
                     /\ UNCHANGED <<pc, req, inst, pend>>
    /\ UNCHANGED <<now, players, audit, authenticated, gameServers, connServerId, batch>>

\* ------------------------------------------------------ batch crash recovery

\* total: players.length; successful and failed: results.filter(...).length
Summary(total, results) ==
    [total |-> total,
     successful |-> Cardinality({ i \in 1..Len(results) : results[i].success }),
     failed |-> Cardinality({ i \in 1..Len(results) : ~results[i].success })]

\* the entries of a batch: a stale and a current document, one with a
\* tracking section and one of the wrong version
BatchDocs ==
    { doc \in Docs :
        /\ doc.stats = ZeroStats
        /\ doc.syncSeq \in {0, 1} }

\* the lists of entries a game server sends in one frame
Batches == UNION { [1..n -> BatchDocs] : n \in 0..MaxBatch }

\* what the loop pushes for an entry that does not go on to write: a failed
\* validation, a result of handleCrashRecovery or a caught error
EntryResult(doc, decision) ==
    IF ~validateV2Format(doc).valid
    THEN BatchResult(doc.steamId, FALSE, -1, FALSE, FALSE)
    ELSE IF \/ ~validateV2PlayerFormat(doc).valid
            \/ doc.tracking.present /\ ~validateV2TrackingFormat(Bare(doc.tracking)).valid
    THEN BatchResult(doc.steamId, FALSE, -1, FALSE, FALSE)
    ELSE IF decision.kind = "skip"
    THEN BatchResult(doc.steamId, TRUE, -1, TRUE, FALSE)
    ELSE BatchResult(doc.steamId, FALSE, -1, FALSE, FALSE)

\* the entry is one handleCrashRecovery goes on to write
EntryWrites(doc, decision) ==
    /\ validateV2Format(doc).valid
    /\ validateV2PlayerFormat(doc).valid
    /\ ~(doc.tracking.present /\ ~validateV2TrackingFormat(Bare(doc.tracking)).valid)
    /\ decision.kind = "save"

\* a frame with one entry more than the REST batch route accepts
OversizedBatches ==
    { [i \in 1..(BATCH_LIMIT + 1) |-> Doc(2, p, 1, ZeroStats, NoTracking)] : p \in Players }

\* the entries of a list that go on to write (and to append an audit row)
Writers(list) ==
    { i \in 1..Len(list) :
        EntryWrites(list[i], RecoveryDecision(findWithFullData(list[i].steamId), list[i])) }

\* socket.on('player:batch-crash-recovery') up to the loop over the entries
RecvBatch(h, s, list) ==
    /\ Quiet
    /\ Free(h)
    /\ Len(audit) + Cardinality(InFlight) + Cardinality(Writers(list)) <= MaxAudit + MaxSyncRows
    /\ IF ~authenticated[s]
       THEN /\ Emit([Frame("batch-recovery:error", s, NULL) EXCEPT !.error = "Server not authenticated"])
            /\ UNCHANGED <<pc, req, batch>>
       ELSE /\ pc' = [pc EXCEPT ![h] = "batch"]
            /\ req' = [req EXCEPT ![h] = BatchReq(s)]
            /\ batch' = [batch EXCEPT ![h] =
                    [total |-> Len(list), todo |-> list, results |-> <<>>]]
            /\ NoEmit
    /\ UNCHANGED <<now, players, audit, authenticated, gameServers, connServerId, inst, pend>>

\* mutant: an entry that fails ends the loop
BatchEntry_abortOnFailure(h) ==
    /\ Quiet
    /\ pc[h] = "batch"
    /\ batch[h].todo # <<>>
    /\ LET doc == Head(batch[h].todo)
       IN  \E decision \in {RecoveryDecision(findWithFullData(doc.steamId), doc)} :
             IF EntryWrites(doc, decision)
             THEN /\ pc' = [pc EXCEPT ![h] = "save"]
                  /\ req' = [req EXCEPT ![h] = [op |-> "batch", server |-> req[h].server,
                                                steamId |-> doc.steamId, doc |-> doc,
                                                at |-> NoTime]]
                  /\ inst' = [inst EXCEPT ![h] = ClearLock(findWithFullData(doc.steamId))]
                  /\ pend' = [pend EXCEPT ![h] = decision]
                  /\ batch' = [batch EXCEPT ![h].todo = Tail(@)]
             ELSE /\ batch' = [batch EXCEPT
                                ![h].todo = IF EntryResult(doc, decision).success
                                            THEN Tail(@) ELSE <<>>,
                                ![h].results = Append(@, EntryResult(doc, decision))]
                  /\ UNCHANGED <<pc, req, inst, pend>>
    /\ NoEmit
    /\ UNCHANGED <<now, players, audit, authenticated, gameServers, connServerId>>

\* one turn of the loop: validateV2Format, handleCrashRecovery up to its
\* first write, and the push of the result (or the catch)
BatchEntry(h) ==
    /\ Quiet
    /\ pc[h] = "batch"
    /\ batch[h].todo # <<>>
    /\ LET doc == Head(batch[h].todo)
       IN  \E decision \in {RecoveryDecision(findWithFullData(doc.steamId), doc)} :
             IF EntryWrites(doc, decision)
             THEN /\ pc' = [pc EXCEPT ![h] = "save"]
                  /\ req' = [req EXCEPT ![h] = [op |-> "batch", server |-> req[h].server,
                                                steamId |-> doc.steamId, doc |-> doc,
                                                at |-> NoTime]]
                  /\ inst' = [inst EXCEPT ![h] = ClearLock(findWithFullData(doc.steamId))]
                  /\ pend' = [pend EXCEPT ![h] = decision]
                  /\ batch' = [batch EXCEPT ![h].todo = Tail(@)]
             ELSE /\ batch' = [batch EXCEPT ![h].todo = Tail(@),
                                            ![h].results = Append(@, EntryResult(doc, decision))]
                  /\ UNCHANGED <<pc, req, inst, pend>>
    /\ NoEmit
    /\ UNCHANGED <<now, players, audit, authenticated, gameServers, connServerId>>

\* after the loop: socket.emit('batch-recovery:complete', ...)
BatchComplete(h) ==
    /\ Quiet
    /\ pc[h] = "batch"
    /\ batch[h].todo = <<>>
    /\ LET summary == Summary(batch[h].total, batch[h].results)
       IN  Emit([Frame("batch-recovery:complete", req[h].server, NULL) EXCEPT
                    !.total = summary.total,
                    !.successful = summary.successful,
                    !.failed = summary.failed,
                    !.results = batch[h].results])
    /\ Finish(h)
    /\ batch' = [batch EXCEPT ![h] = NoBatch]
    /\ UNCHANGED <<now, players, audit, authenticated, gameServers, connServerId>>

Next ==
    \/ Deliver
    \/ Tick
    \/ \E s \in Servers : SocketConnect(s)
    \/ \E s \in Servers : SocketDisconnect(s)
    \/ \E s \in Servers : DeactivateServer(s)
    \/ \E s \in Servers : DeactivateSweep(s)
    \/ \E h \in Handlers, s \in Servers, p \in Players : RecvConnect(h, s, p)
    \/ \E h \in Handlers : ConnectCreate(h)
    \/ \E h \in Handlers : ConnectCreateStats(h)
    \/ \E h \in Handlers : ConnectReload(h)
    \/ \E h \in Handlers : Save(h)
    \/ \E h \in Handlers : LogSync(h)
    \/ \E h \in Handlers, s \in Servers, doc \in Docs : RecvSync(h, s, doc)
    \/ \E h \in Handlers, s \in Servers, doc \in Docs : RecvDisconnect(h, s, doc)
    \/ \E h \in Handlers, s \in Servers, doc \in Docs : RecvRecovery(h, s, doc)
    \/ \E h \in Handlers : TxEnd(h)
    \/ \E h \in Handlers, s \in Servers, list \in Batches : RecvBatch(h, s, list)
    \/ \E h \in Handlers : BatchEntry(h)
    \/ \E h \in Handlers : BatchComplete(h)

Spec == Init /\ [][Next]_vars

\* the service in operation: every configured server is connected and
\* authenticated, and stays so
ServiceRunning ==
    /\ now = 0
    /\ players \in StoredTables
    /\ audit = <<>>
    /\ authenticated = [s \in Servers |-> TRUE]
    /\ gameServers = [s \in Servers |-> Registered]
    /\ connServerId = [s \in Servers |-> s]
    /\ pc = [h \in Handlers |-> "idle"]
    /\ req = [h \in Handlers |-> NoReq]
    /\ inst = [h \in Handlers |-> NoRow]
    /\ pend = [h \in Handlers |-> NoPend]
    /\ batch = [h \in Handlers |-> NoBatch]
    /\ emitted = NoFrame

Running == ServiceRunning /\ PluginAtRest

NextRunning ==
    \/ Deliver
    \/ Tick
    \/ \E h \in Handlers, s \in Servers, p \in Players : RecvConnect(h, s, p)
    \/ \E h \in Handlers : ConnectCreate(h)
    \/ \E h \in Handlers : ConnectCreateStats(h)
    \/ \E h \in Handlers : ConnectReload(h)
    \/ \E h \in Handlers : Save(h)
    \/ \E h \in Handlers : LogSync(h)
    \/ \E h \in Handlers, s \in Servers, doc \in Docs : RecvSync(h, s, doc)
    \/ \E h \in Handlers, s \in Servers, doc \in Docs : RecvDisconnect(h, s, doc)
    \/ \E h \in Handlers, s \in Servers, doc \in Docs : RecvRecovery(h, s, doc)
    \/ \E h \in Handlers : TxEnd(h)

SpecRunning == Running /\ [][NextRunning]_vars

\* the service in operation until connections drop or servers are
\* deactivated, within one instant of the clock; a connection that dropped
\* stays down
NextLock ==
    \/ Deliver
    \/ \E h \in Handlers, s \in Servers, p \in Players : RecvConnect(h, s, p)
    \/ \E h \in Handlers : ConnectCreate(h)
    \/ \E h \in Handlers : ConnectCreateStats(h)
    \/ \E h \in Handlers : ConnectReload(h)
    \/ \E h \in Handlers : Save(h)
    \/ \E h \in Handlers : LogSync(h)
    \/ \E h \in Handlers, s \in Servers, doc \in Docs : RecvSync(h, s, doc)
    \/ \E h \in Handlers, s \in Servers, doc \in Docs : RecvDisconnect(h, s, doc)
    \/ \E h \in Handlers, s \in Servers, doc \in Docs : RecvRecovery(h, s, doc)
    \/ \E h \in Handlers : TxEnd(h)
    \/ \E s \in Servers : SocketDisconnect(s)
    \/ \E s \in Servers : DeactivateServer(s)
    \/ \E s \in Servers : DeactivateSweep(s)

SpecLock == Running /\ [][NextLock]_vars

\* batch recoveries on their own: the servers send lists of entries and
\* nothing else
NextBatch ==
    \/ Deliver
    \/ \E h \in Handlers, s \in Servers, list \in Batches : RecvBatch(h, s, list)
    \/ \E h \in Handlers : BatchEntry(h)
    \/ \E h \in Handlers : BatchComplete(h)

SpecBatch == Running /\ [][NextBatch]_vars

\* batch recoveries of more entries than the REST batch route accepts
NextOversized ==
    \/ Deliver
    \/ \E h \in Handlers, s \in Servers, list \in OversizedBatches : RecvBatch(h, s, list)
    \/ \E h \in Handlers : BatchEntry(h)
    \/ \E h \in Handlers : BatchComplete(h)

SpecOversized == Running /\ [][NextOversized]_vars

\* the session lock on its own: connections come and go, servers are
\* deactivated, and players of every account connect; no documents are sent
\* and the clock stands still
Sessions ==
    /\ now = 0
    /\ players \in [Accounts -> StoredRows]
    /\ audit = <<>>
    /\ authenticated = [s \in Servers |-> TRUE]
    /\ gameServers = [s \in Servers |-> Registered]
    /\ connServerId = [s \in Servers |-> s]
    /\ pc = [h \in Handlers |-> "idle"]
    /\ req = [h \in Handlers |-> NoReq]
    /\ inst = [h \in Handlers |-> NoRow]
    /\ pend = [h \in Handlers |-> NoPend]
    /\ batch = [h \in Handlers |-> NoBatch]
    /\ emitted = NoFrame
    /\ PluginAtRest

NextSessions ==
    \/ Deliver
    \/ \E s \in Servers : SocketConnect(s)
    \/ \E s \in Servers : SocketDisconnect(s)
    \/ \E s \in Servers : DeactivateServer(s)
    \/ \E s \in Servers : DeactivateSweep(s)
    \/ \E h \in Handlers, s \in Servers, p \in Accounts : RecvConnect(h, s, p)
    \/ \E h \in Handlers : ConnectCreate(h)
    \/ \E h \in Handlers : ConnectCreateStats(h)
    \/ \E h \in Handlers : ConnectReload(h)
    \/ \E h \in Handlers : Save(h)
    \/ \E h \in Handlers : LogSync(h)

SpecSessions == Sessions /\ [][NextSessions]_vars

\* ------------------------------------------------------- the upsert pipeline

\* keys of the kills map
Victims == {"76561198000000008", "76561198000000009"}

RifleSlot == Slot(1, "rifle", 1)

MedkitSlot == Slot(2, "medkit", 2)

LoadoutLists == { <<>>, <<RifleSlot>>, <<MedkitSlot>>, <<MedkitSlot, RifleSlot>> }

PerkLists == { <<>>, <<"Marksman">>, <<"Engineer", "Engineer">> }

UnlockLists == { <<>>, <<"AK74">>, <<"AK74", "M4">> }

KillMaps == { OneCount("76561198000000008", 3), OneCount("76561198000000009", 3) }

TrackingSections == { NoTracking } \cup { [present |-> TRUE, kills |-> m] : m \in KillMaps }

\* the documents whose writes are applied: syncSeq 2, any lists and maps
UpsertDocs ==
    { [Doc(2, p, 2, ZeroStats, t) EXCEPT !.loadout = l, !.perks = k, !.permaUnlocks = u] :
        p \in Players, t \in TrackingSections, l \in LoadoutLists,
        k \in PerkLists, u \in UnlockLists }

\* a stored player with no rows in the side tables, and one with rows in
\* each of them
BareRow == [NewRow EXCEPT !.sync_seq = 1, !.hasStats = TRUE]

FullRow ==
    [BareRow EXCEPT
        !.loadout = LoadoutParts(<<RifleSlot, MedkitSlot>>),
        !.perks = <<"Engineer", "Marksman">>,
        !.permaUnlocks = <<"M4">>,
        !.kills = [k \in Victims |-> 1]]

\* the transaction of handlePeriodicSync from player.update to commit, on
\* its own: the writes of a document that has passed every check; a create
\* that fails rolls everything back
SyncTransaction(p, doc) ==
    /\ Quiet
    /\ players[p].exists
    /\ players' = [players EXCEPT ![p] =
            IF PerksCollide(doc.perks) THEN @ ELSE ApplySync(@, {"sync_seq"}, doc)]
    /\ UNCHANGED <<now, audit, authenticated, gameServers, connServerId,
                   pc, req, inst, pend, batch>>
    /\ NoEmit

\* stored players with and without side-table rows
Upserting ==
    /\ now = 0
    /\ players \in { t \in [Accounts -> {NoRow, BareRow, FullRow}] :
                        /\ \A p \in Players : t[p].exists
                        /\ \A p \in Accounts \ Players : t[p] = NoRow }
    /\ audit = <<>>
    /\ authenticated = [s \in Servers |-> TRUE]
    /\ gameServers = [s \in Servers |-> Registered]
    /\ connServerId = [s \in Servers |-> s]
    /\ pc = [h \in Handlers |-> "idle"]
    /\ req = [h \in Handlers |-> NoReq]
    /\ inst = [h \in Handlers |-> NoRow]
    /\ pend = [h \in Handlers |-> NoPend]
    /\ batch = [h \in Handlers |-> NoBatch]
    /\ emitted = NoFrame
    /\ PluginAtRest

NextUpsert == \E p \in Players, doc \in UpsertDocs : SyncTransaction(p, doc)

SpecUpsert == Upserting /\ [][NextUpsert]_vars

\* the documents of a round trip: the stored document of a player, sent back
\* with the next and the next but one syncSeq
RoundTripDocs ==
    { Doc(2, p, q + d, ZeroStats, NoTracking) : p \in Players, q \in StoredSeqs, d \in {1, 2} }

\* players connect, and their servers send the document they were given
\* back in a PeriodicSync and in a Disconnect
NextRoundTrip ==
    \/ Deliver
    \/ \E h \in Handlers, s \in Servers, p \in Players : RecvConnect(h, s, p)
    \/ \E h \in Handlers : ConnectCreate(h)
    \/ \E h \in Handlers : ConnectCreateStats(h)
    \/ \E h \in Handlers : ConnectReload(h)
    \/ \E h \in Handlers : Save(h)
    \/ \E h \in Handlers : LogSync(h)
    \/ \E h \in Handlers, s \in Servers, doc \in RoundTripDocs : RecvSync(h, s, doc)
    \/ \E h \in Handlers, s \in Servers, doc \in RoundTripDocs : RecvDisconnect(h, s, doc)
    \/ \E h \in Handlers : TxEnd(h)

SpecRoundTrip == Running /\ [][NextRoundTrip]_vars

\* ids of 16 and of 18 decimal digits
ShortSteamId == "7656119800000000"

LongSteamId == "765611980000000012"

\* a loadout entry whose slot is not a number and whose item is not a string
BadSlot == [Slot(1, "rifle", 1) EXCEPT !.slotIsNumber = FALSE, !.itemIsString = FALSE]

\* documents that violate the v2 shape, one for each rule of
\* validateV2PlayerFormat and validateV2TrackingFormat
MalformedDocs ==
    UNION {
        { Doc(1, p, 1, ZeroStats, NoTracking),
          Doc(2, p, 1, [ZeroStats EXCEPT !.currency = -1], NoTracking),
          Doc(2, p, 1, [ZeroStats EXCEPT !.prestige = 101], NoTracking),
          Doc(2, p, 1, ZeroStats, [present |-> TRUE, kills |-> OneCount("76561198000000009", -1)]),
          [Doc(2, p, 1, ZeroStats, NoTracking) EXCEPT !.loadout = <<BadSlot>>] }
        : p \in Players }
    \cup { Doc(2, id, 1, ZeroStats, NoTracking) : id \in {ShortSteamId, LongSteamId} }

\* the malformed documents and, beside them, well-formed ones
ShapeDocs ==
    MalformedDocs
    \cup { Doc(2, p, 1, [ZeroStats EXCEPT !.prestige = 100], NoTracking) : p \in Players }

\* batch frames: one of these documents, or a malformed one followed by a
\* well-formed one
ShapeBatches ==
    { <<doc>> : doc \in ShapeDocs }
    \cup { <<bad, doc>> : bad \in MalformedDocs, doc \in ShapeDocs \ MalformedDocs }

\* every sync operation receives documents of every shape
NextShape ==
    \/ Deliver
    \/ \E h \in Handlers, s \in Servers, doc \in ShapeDocs : RecvSync(h, s, doc)
    \/ \E h \in Handlers, s \in Servers, doc \in ShapeDocs : RecvDisconnect(h, s, doc)
    \/ \E h \in Handlers, s \in Servers, doc \in ShapeDocs : RecvRecovery(h, s, doc)
    \/ \E h \in Handlers, s \in Servers, list \in ShapeBatches : RecvBatch(h, s, list)
    \/ \E h \in Handlers : BatchEntry(h)
    \/ \E h \in Handlers : BatchComplete(h)
    \/ \E h \in Handlers : TxEnd(h)

SpecShape == Running /\ [][NextShape]_vars

\* ---------------------------------------------------------- database errors

\* error.message of an error the database raised
DbError == "SequelizeDatabaseError"

\* the document passes the connector's and the engine's validation
Validated(op, doc) ==
    /\ validateV2Format(doc).valid
    /\ validateV2PlayerFormat(doc).valid
    /\ ~(/\ doc.tracking.present
          /\ ~validateV2TrackingFormat(IF op = "sync"
                                        THEN WithHeader(doc.steamId, doc.tracking)
                                        ELSE Bare(doc.tracking)).valid)

\* handlePeriodicSync / handlePlayerDisconnect when findWithFullData
\* rejects: the catch block is entered with the transaction open
ReadFails(op, h, s, doc) ==
    /\ Quiet
    /\ Free(h)
    /\ SyncBudget
    /\ authenticated[s]
    /\ Validated(op, doc)
    /\ pc' = [pc EXCEPT ![h] = "tx"]
    /\ pend' = [pend EXCEPT ![h] = [Pend("throw") EXCEPT !.error = DbError]]
    /\ req' = [req EXCEPT ![h] = Kept(op, s, doc, pend'[h])]
    /\ inst' = [inst EXCEPT ![h] = NoRow]
    /\ NoEmit
    /\ UNCHANGED <<now, players, audit, authenticated, gameServers, connServerId, batch>>

SyncReadFails(h, s, doc) == ReadFails("sync", h, s, doc)

DisconnectReadFails(h, s, doc) == ReadFails("disconnect", h, s, doc)

\* mutant: the lock is cleared before the row is read
RecoveryReadFails_lockCleared(h, s, doc) ==
    /\ Quiet
    /\ Free(h)
    /\ SyncBudget
    /\ authenticated[s]
    /\ Validated("recovery", doc)
    /\ Emit([Frame("recovery:error", s, doc.steamId) EXCEPT !.error = DbError])
    /\ players' = [players EXCEPT ![doc.steamId] = ClearLock(@)]
    /\ UNCHANGED <<now, audit, authenticated, gameServers, connServerId,
                   pc, req, inst, pend, batch>>

\* handleCrashRecovery when findWithFullData rejects: nothing was written
\* and no transaction is open; the connector's catch answers
RecoveryReadFails(h, s, doc) ==
    /\ Quiet
    /\ Free(h)
    /\ SyncBudget
    /\ authenticated[s]
    /\ Validated("recovery", doc)
    /\ Emit([Frame("recovery:error", s, doc.steamId) EXCEPT !.error = DbError])
    /\ UNCHANGED <<now, players, audit, authenticated, gameServers, connServerId,
                   pc, req, inst, pend, batch>>

\* players connect; their servers sync, disconnect and recover, and the
\* database may fail any read
NextDbError ==
    \/ NextRoundTrip
    \/ \E h \in Handlers, s \in Servers, doc \in RoundTripDocs : RecvRecovery(h, s, doc)
    \/ \E h \in Handlers, s \in Servers, doc \in RoundTripDocs : SyncReadFails(h, s, doc)
    \/ \E h \in Handlers, s \in Servers, doc \in RoundTripDocs : DisconnectReadFails(h, s, doc)
    \/ \E h \in Handlers, s \in Servers, doc \in RoundTripDocs : RecoveryReadFails(h, s, doc)

SpecDbError == Running /\ [][NextDbError]_vars

\* the next step of the handler in slot h: the continuation that runs when
\* the promise it awaits settles
HandlerStep(h) ==
    \/ ConnectCreate(h)
    \/ ConnectCreateStats(h)
    \/ ConnectReload(h)
    \/ Save(h)
    \/ LogSync(h)
    \/ TxEnd(h)

\* the event loop runs every continuation whose promise has settled and
\* sends every frame that was emitted
FairDbError ==
    /\ SpecDbError
    /\ SF_vars(Deliver)
    /\ \A h \in Handlers : SF_vars(HandlerStep(h))

\* the documents sent while connections authenticate
AuthDocs ==
    { doc \in Docs :
        doc.v = 2 /\ doc.syncSeq = 1 /\ doc.stats = ZeroStats /\ ~doc.tracking.present }

\* the lists sent while connections authenticate
AuthBatches == { list \in Batches : Len(list) = 1 /\ list[1] \in AuthDocs }

\* the service as it starts: no connection is up, and the game_servers table
\* holds any row for each configured connection
Connecting ==
    /\ now = 0
    /\ players \in StoredTables
    /\ audit = <<>>
    /\ authenticated = [s \in Servers |-> FALSE]
    /\ gameServers \in [Servers -> ServerRows]
    /\ connServerId = [s \in Servers |-> NULL]
    /\ pc = [h \in Handlers |-> "idle"]
    /\ req = [h \in Handlers |-> NoReq]
    /\ inst = [h \in Handlers |-> NoRow]
    /\ pend = [h \in Handlers |-> NoPend]
    /\ batch = [h \in Handlers |-> NoBatch]
    /\ emitted = NoFrame
    /\ PluginAtRest

\* connections come up and drop, and every kind of frame arrives on them
NextAuth ==
    \/ Deliver
    \/ \E s \in Servers : SocketConnect(s)
    \/ \E s \in Servers : SocketDisconnect(s)
    \/ \E h \in Handlers, s \in Servers, p \in Players : RecvConnect(h, s, p)
    \/ \E h \in Handlers : ConnectCreate(h)
    \/ \E h \in Handlers : ConnectCreateStats(h)
    \/ \E h \in Handlers : ConnectReload(h)
    \/ \E h \in Handlers : Save(h)
    \/ \E h \in Handlers : LogSync(h)
    \/ \E h \in Handlers, s \in Servers, doc \in AuthDocs : RecvSync(h, s, doc)
    \/ \E h \in Handlers, s \in Servers, doc \in AuthDocs : RecvDisconnect(h, s, doc)
    \/ \E h \in Handlers, s \in Servers, doc \in AuthDocs : RecvRecovery(h, s, doc)
    \/ \E h \in Handlers : TxEnd(h)
    \/ \E h \in Handlers, s \in Servers, list \in AuthBatches : RecvBatch(h, s, list)
    \/ \E h \in Handlers : BatchEntry(h)
    \/ \E h \in Handlers : BatchComplete(h)

SpecAuth == Connecting /\ [][NextAuth]_vars

\* ------------------------------------------------------- game-server plugin

\* isConnected(): kothBotSocket !== null && connected && authenticated
isConnected == kothBotSocket

\* a frame the plugin sent: the event, the steamId, the document (for
\* player:connect none), the request it was sent for and, for a batch
\* recovery, its entries (steamId and document)
WireFrame(ev, steamId, id, doc) ==
    [ev |-> ev, steamId |-> steamId, id |-> id, doc |-> doc, entries |-> {}]

\* a setTimeout callback: the request timeout, or the n-th retry of a request
Timer(kind, steamId, id, n, due) ==
    [kind |-> kind, steamId |-> steamId, id |-> id, n |-> n, due |-> due]

\* a sequence without its i-th element
Without(seq, i) == [j \in 1..(Len(seq) - 1) |-> IF j < i THEN seq[j] ELSE seq[j + 1]]

\* mutant: a settled promise is settled again
Settle_again(table, id, state, reason) ==
    [table EXCEPT ![id].state = state, ![id].reason = reason]

\* resolve / reject of a promise: only a pending promise changes
Settle(table, id, state, reason) ==
    IF table[id].state = "pending"
    THEN [table EXCEPT ![id].state = state, ![id].reason = reason]
    ELSE table

\* createDefaultV2Save, as written by writePlayerJson
DefaultSave(session) == [present |-> TRUE, v |-> 2, syncSeq |-> 0, session |-> session]

\* the file writePlayerJson leaves for a document with this syncSeq
SavedFile(syncSeq, session) == [present |-> TRUE, v |-> 2, syncSeq |-> syncSeq, session |-> session]

Info(syncSeq, session) == [present |-> TRUE, syncSeq |-> syncSeq, session |-> session]

\* the catch block of onPlayerConnected, run when its request is rejected
\* while pending: a default save is written and the player tracked
Rejected(p, id, reason) ==
    /\ promises' = Settle(promises, id, "rejected", reason)
    /\ IF promises[id].state = "pending"
       THEN /\ files' = [files EXCEPT ![p] = DefaultSave(sessions[p])]
            /\ activePlayers' = [activePlayers EXCEPT ![p] = Info(0, sessions[p])]
       ELSE UNCHANGED <<files, activePlayers>>

\* the timeout timer of a request
TimeoutOf(id) == { t \in timers : t.kind = "timeout" /\ t.id = id }

\* the first unissued promise
NextRequest == CHOOSE id \in Requests :
                  /\ promises[id].state = "unissued"
                  /\ \A j \in Requests : promises[j].state = "unissued" => id <= j

\* mount(): the socket server is started, the listeners are registered and
\* performCrashRecovery begins to read the folder
Mount ==
    /\ mounted = "unmounted"
    /\ clock = 0
    /\ mounted' = "recovering"
    /\ UNCHANGED <<svars, online, clock, kothBotSocket, pendingRequests, promises, timers,
                   activePlayers, files, sessions, wire>>

\* io.on('connection'): the service connects with the right token
BotConnects ==
    /\ mounted # "unmounted"
    /\ ~kothBotSocket
    /\ kothBotSocket' = TRUE
    /\ UNCHANGED <<svars, online, clock, mounted, pendingRequests, promises, timers,
                   activePlayers, files, sessions, wire>>

\* socket.on('disconnect'): frames not yet answered are lost with the socket
BotDisconnects ==
    /\ kothBotSocket
    /\ kothBotSocket' = FALSE
    /\ wire' = <<>>
    /\ UNCHANGED <<svars, online, clock, mounted, pendingRequests, promises, timers,
                   activePlayers, files, sessions>>

\* onPlayerConnected: requestPlayerData when connected, else the cached
\* file or a default save
OnPlayerConnected(p) ==
    /\ mounted # "unmounted"
    /\ sessions[p] < MaxSessions
    /\ p \notin online
    /\ online' = online \cup {p}
    /\ sessions' = [sessions EXCEPT ![p] = @ + 1]
    /\ IF isConnected
       THEN /\ \E id \in Requests : promises[id].state = "unissued"
            /\ clock + REQUEST_TIMEOUT <= MaxClock
            /\ LET id == NextRequest
               IN  /\ pendingRequests' = [pendingRequests EXCEPT ![p] = [id |-> id, retryCount |-> 0]]
                   /\ promises' = [promises EXCEPT ![id] =
                           [state |-> "pending", reason |-> NULL, steamId |-> p,
                            issuedAt |-> clock, connects |-> 1]]
                   /\ timers' = timers \cup {Timer("timeout", p, id, 0, clock + REQUEST_TIMEOUT)}
                   /\ wire' = Append(wire, WireFrame("player:connect", p, id, NoFile))
            /\ UNCHANGED <<files, activePlayers>>
       ELSE /\ IF files[p].present /\ files[p].v = 2
               THEN /\ activePlayers' = [activePlayers EXCEPT ![p] =
                            Info(files[p].syncSeq, sessions'[p])]
                    /\ UNCHANGED files
               ELSE /\ files' = [files EXCEPT ![p] = DefaultSave(sessions'[p])]
                    /\ activePlayers' = [activePlayers EXCEPT ![p] = Info(0, sessions'[p])]
            /\ UNCHANGED <<pendingRequests, promises, timers, wire>>
    /\ UNCHANGED <<svars, clock, mounted, kothBotSocket>>

\* socket.on('player:data'): the pending request of that steamId is
\* resolved; with a document the file is written and the player tracked,
\* without one onPlayerConnected tracks the player at syncSeq 0
PlayerData(i, hasData, syncSeq) ==
    /\ kothBotSocket
    /\ i \in 1..Len(wire)
    /\ wire[i].ev = "player:connect"
    /\ LET p == wire[i].steamId
           pending == pendingRequests[p]
       IN  /\ wire' = Without(wire, i)
           /\ IF pending # NoPending
              THEN /\ pendingRequests' = [pendingRequests EXCEPT ![p] = NoPending]
                   /\ timers' = timers \ TimeoutOf(pending.id)
                   /\ promises' = Settle(promises, pending.id, "resolved", NULL)
              ELSE UNCHANGED <<pendingRequests, timers, promises>>
           /\ IF hasData
              THEN /\ files' = [files EXCEPT ![p] = SavedFile(syncSeq, sessions[p])]
                   /\ activePlayers' = [activePlayers EXCEPT ![p] = Info(syncSeq, sessions[p])]
              ELSE IF pending # NoPending
              THEN /\ activePlayers' = [activePlayers EXCEPT ![p] = Info(0, sessions[p])]
                   /\ UNCHANGED files
              ELSE UNCHANGED <<files, activePlayers>>
    /\ UNCHANGED <<svars, online, clock, mounted, kothBotSocket, sessions>>

\* socket.on('player:wait'): the retry count of the pending request goes
\* up; at maxRetries the request is rejected, below it a timer is set that
\* sends player:connect again
PlayerWait(i, retryAfterMs, maxRetries) ==
    /\ kothBotSocket
    /\ i \in 1..Len(wire)
    /\ wire[i].ev = "player:connect"
    /\ LET p == wire[i].steamId
           pending == pendingRequests[p]
       IN  /\ wire' = Without(wire, i)
           /\ IF pending = NoPending
              THEN UNCHANGED <<pendingRequests, timers, promises, files, activePlayers>>
              ELSE IF pending.retryCount + 1 >= maxRetries
              THEN /\ pendingRequests' = [pendingRequests EXCEPT ![p] = NoPending]
                   /\ timers' = timers \ TimeoutOf(pending.id)
                   /\ Rejected(p, pending.id, "retries")
              ELSE /\ pendingRequests' = [pendingRequests EXCEPT ![p].retryCount = @ + 1]
                   /\ timers' = timers \cup
                         {Timer("retry", p, pending.id, pending.retryCount + 1, clock + retryAfterMs)}
                   /\ UNCHANGED <<promises, files, activePlayers>>
    /\ UNCHANGED <<svars, online, clock, mounted, kothBotSocket, sessions>>

\* socket.on('player:error')
PlayerError(i) ==
    /\ kothBotSocket
    /\ i \in 1..Len(wire)
    /\ wire[i].ev = "player:connect"
    /\ LET p == wire[i].steamId
           pending == pendingRequests[p]
       IN  /\ wire' = Without(wire, i)
           /\ IF pending = NoPending
              THEN UNCHANGED <<pendingRequests, timers, promises, files, activePlayers>>
              ELSE /\ pendingRequests' = [pendingRequests EXCEPT ![p] = NoPending]
                   /\ timers' = timers \ TimeoutOf(pending.id)
                   /\ Rejected(p, pending.id, "error")
    /\ UNCHANGED <<svars, online, clock, mounted, kothBotSocket, sessions>>

\* a timer whose time has come runs: the request timeout deletes the entry
\* of its steamId and rejects its promise; a retry sends player:connect if
\* the service is connected
TimerFires(t) ==
    /\ t \in timers
    /\ t.due <= clock
    /\ timers' = timers \ {t}
    /\ IF t.kind = "timeout"
       THEN /\ pendingRequests' = [pendingRequests EXCEPT ![t.steamId] = NoPending]
            /\ Rejected(t.steamId, t.id, "Request timeout")
            /\ UNCHANGED wire
       ELSE /\ IF isConnected
               THEN /\ wire' = Append(wire, WireFrame("player:connect", t.steamId, t.id, NoFile))
                    /\ promises' = [promises EXCEPT ![t.id].connects = @ + 1]
               ELSE UNCHANGED <<wire, promises>>
            /\ UNCHANGED <<pendingRequests, files, activePlayers>>
    /\ UNCHANGED <<svars, online, clock, mounted, kothBotSocket, sessions>>

\* time passes on the game server; timers run when they are due
PluginTick ==
    /\ clock < MaxClock
    /\ \A t \in timers : t.due > clock
    /\ clock' = clock + PLUGIN_TICK
    /\ UNCHANGED <<svars, online, mounted, kothBotSocket, pendingRequests, promises, timers,
                   activePlayers, files, sessions, wire>>

\* the entries of pendingRequests
PendingIds == { pendingRequests[p].id : p \in { q \in Players : pendingRequests[q] # NoPending } }

\* unmount(): activePlayers is cleared, every pending request is rejected
\* and the map cleared, the socket server closed; no timer is cleared. The
\* catch blocks of the rejected requests then write default saves
Unmount ==
    /\ mounted # "unmounted"
    /\ mounted' = "unmounted"
    /\ promises' = [id \in Requests |->
            IF id \in PendingIds /\ promises[id].state = "pending"
            THEN [promises[id] EXCEPT !.state = "rejected", !.reason = "Plugin unmounting"]
            ELSE promises[id]]
    /\ pendingRequests' = [p \in Players |-> NoPending]
    /\ activePlayers' = [p \in Players |->
            IF pendingRequests[p] # NoPending THEN Info(0, sessions[p]) ELSE NoInfo]
    /\ files' = [p \in Players |->
            IF pendingRequests[p] # NoPending THEN DefaultSave(sessions[p]) ELSE files[p]]
    /\ kothBotSocket' = FALSE
    /\ wire' = <<>>
    /\ UNCHANGED <<svars, online, clock, timers, sessions>>

\* an entry of the batch: the file as it was read
BatchEntryOf(p) == [steamId |-> p, doc |-> files[p]]

\* the batch frame of performCrashRecovery
BatchFrame(entries) ==
    [WireFrame("player:batch-crash-recovery", NULL, 0, NoFile) EXCEPT !.entries = entries]

\* performCrashRecovery once the folder was read: without files, or without
\* a connection, it returns; else the v2 files go out in one batch frame
CrashRecoveryScan ==
    /\ mounted = "recovering"
    /\ mounted' = "mounted"
    /\ LET playerFiles == { p \in Players : files[p].present }
           players_ == { p \in playerFiles : files[p].v = 2 }
       IN  IF playerFiles = {} \/ ~isConnected \/ players_ = {}
           THEN UNCHANGED wire
           ELSE wire' = Append(wire, BatchFrame({BatchEntryOf(p) : p \in players_}))
    /\ UNCHANGED <<svars, online, clock, kothBotSocket, pendingRequests, promises, timers,
                   activePlayers, files, sessions>>

\* onPlayerDisconnected: without a file the player is forgotten; else the
\* file is rewritten with the next syncSeq and sent, or kept for crash
\* recovery when the service is not connected
OnPlayerDisconnected(p) ==
    /\ mounted # "unmounted"
    /\ p \in online
    /\ online' = online \ {p}
    /\ IF ~files[p].present
       THEN /\ activePlayers' = [activePlayers EXCEPT ![p] = NoInfo]
            /\ UNCHANGED <<files, wire>>
       ELSE LET seq == IF activePlayers[p].present /\ activePlayers[p].syncSeq # 0
                       THEN activePlayers[p].syncSeq
                       ELSE files[p].syncSeq
                playerData == [files[p] EXCEPT !.syncSeq = seq + 1, !.session = sessions[p]]
            IN  /\ files' = [files EXCEPT ![p] = playerData]
                /\ IF isConnected
                   THEN /\ wire' = Append(wire, WireFrame("player:disconnect", p, 0, playerData))
                        /\ UNCHANGED activePlayers
                   ELSE /\ activePlayers' = [activePlayers EXCEPT ![p] = NoInfo]
                        /\ UNCHANGED wire
    /\ UNCHANGED <<svars, clock, mounted, kothBotSocket, pendingRequests, promises, timers,
                   sessions>>

\* socket.on('disconnect:ack'): the entry and the file of that steamId go
DisconnectAck(i) ==
    /\ kothBotSocket
    /\ i \in 1..Len(wire)
    /\ wire[i].ev = "player:disconnect"
    /\ wire' = Without(wire, i)
    /\ activePlayers' = [activePlayers EXCEPT ![wire[i].steamId] = NoInfo]
    /\ files' = [files EXCEPT ![wire[i].steamId] = NoFile]
    /\ UNCHANGED <<svars, online, clock, mounted, kothBotSocket, pendingRequests, promises,
                   timers, sessions>>

\* socket.on('disconnect:error'): logged, the file is kept
DisconnectError(i) ==
    /\ kothBotSocket
    /\ i \in 1..Len(wire)
    /\ wire[i].ev = "player:disconnect"
    /\ wire' = Without(wire, i)
    /\ UNCHANGED <<svars, online, clock, mounted, kothBotSocket, pendingRequests, promises,
                   timers, activePlayers, files, sessions>>

\* socket.on('recovery:ack') for an entry of a batch: the file of that
\* steamId goes
RecoveryAck(i, p) ==
    /\ kothBotSocket
    /\ i \in 1..Len(wire)
    /\ wire[i].ev = "player:batch-crash-recovery"
    /\ \E e \in wire[i].entries : e.steamId = p
    /\ wire' = [wire EXCEPT ![i].entries = { e \in @ : e.steamId # p }]
    /\ files' = [files EXCEPT ![p] = NoFile]
    /\ UNCHANGED <<svars, online, clock, mounted, kothBotSocket, pendingRequests, promises,
                   timers, activePlayers, sessions>>

\* socket.on('batch-recovery:complete'): the summary, with the entries the
\* service reports as recovered, is logged
BatchRecoveryComplete(i, recovered) ==
    /\ recovered \subseteq Players
    /\ kothBotSocket
    /\ i \in 1..Len(wire)
    /\ wire[i].ev = "player:batch-crash-recovery"
    /\ wire' = Without(wire, i)
    /\ UNCHANGED <<svars, online, clock, mounted, kothBotSocket, pendingRequests, promises,
                   timers, activePlayers, files, sessions>>

\* players join while the service answers, waits, fails or stays silent
NextRequests ==
    \/ Mount
    \/ BotConnects
    \/ BotDisconnects
    \/ \E p \in Players : OnPlayerConnected(p)
    \/ \E i \in 1..MaxRequests * SERVER_HOP_MAX_RETRIES, hasData \in BOOLEAN :
          PlayerData(i, hasData, 1)
    \/ \E i \in 1..MaxRequests * SERVER_HOP_MAX_RETRIES :
          PlayerWait(i, SERVER_HOP_RETRY_DELAY, SERVER_HOP_MAX_RETRIES)
    \/ \E i \in 1..MaxRequests * SERVER_HOP_MAX_RETRIES : PlayerError(i)
    \/ \E t \in timers : TimerFires(t)
    \/ PluginTick
    \/ \E p \in Players : OnPlayerDisconnected(p)
    \/ \E i \in 1..MaxRequests * SERVER_HOP_MAX_RETRIES : DisconnectAck(i)
    \/ \E i \in 1..MaxRequests * SERVER_HOP_MAX_RETRIES : DisconnectError(i)
    \/ Unmount

SpecRequests == Running /\ [][NextRequests]_vars

\* some timer that is due runs
TimersRun == \E t \in timers : TimerFires(t)

\* the game server's clock goes on and its timers run when due
FairRequests ==
    /\ SpecRequests
    /\ WF_vars(PluginTick)
    /\ WF_vars(TimersRun)

\* files a crashed game server leaves behind: none, a v2 save, a v1 save
OrphanFiles == {NoFile, SavedFile(1, 0), [SavedFile(0, 0) EXCEPT !.v = 1]}

\* the game server starts again after a crash
Restarted ==
    /\ ServiceRunning
    /\ clock = 0
    /\ mounted = "unmounted"
    /\ kothBotSocket = FALSE
    /\ pendingRequests = [p \in Players |-> NoPending]
    /\ promises = [id \in Requests |-> NoPromise]
    /\ timers = {}
    /\ activePlayers = [p \in Players |-> NoInfo]
    /\ files \in [Players -> OrphanFiles]
    /\ sessions = [p \in Players |-> 0]
    /\ online = {}
    /\ wire = <<>>

\* frames that can be outstanding at once
MaxWire == 2 * MaxSessions + 1

\* the plugin mounts over the files of the last run, the service connects
\* when it does, players join and leave
NextFiles ==
    \/ Mount
    \/ CrashRecoveryScan
    \/ BotConnects
    \/ BotDisconnects
    \/ \E p \in Players : OnPlayerConnected(p)
    \/ \E i \in 1..MaxWire, hasData \in BOOLEAN : PlayerData(i, hasData, 1)
    \/ \E i \in 1..MaxWire : PlayerError(i)
    \/ \E p \in Players : OnPlayerDisconnected(p)
    \/ \E i \in 1..MaxWire : DisconnectAck(i)
    \/ \E i \in 1..MaxWire : DisconnectError(i)
    \/ \E i \in 1..MaxWire, p \in Players : RecoveryAck(i, p)
    \/ \E i \in 1..MaxWire, recovered \in SUBSET Players : BatchRecoveryComplete(i, recovered)
    \/ Unmount

SpecFiles == Restarted /\ [][NextFiles]_vars

\* mount() runs on to the end of performCrashRecovery, and the service
\* keeps reconnecting to a mounted plugin
FairFiles ==
    /\ SpecFiles
    /\ WF_vars(CrashRecoveryScan)
    /\ WF_vars(BotConnects)

\* documents of a player who earned 60 000 since the last sync: lifetime
\* currency alone, or spendable currency with it; and one who earned nothing
FlagDocs ==
    { Doc(2, p, q + 1, stats, NoTracking) :
        p \in Players, q \in StoredSeqs,
        stats \in { ZeroStats,
                    [ZeroStats EXCEPT !.currencyTotal = 60000],
                    [ZeroStats EXCEPT !.currencyTotal = 60000, !.currency = 60000] } }

\* players connect and their servers send these documents in a PeriodicSync
NextFlag ==
    \/ Deliver
    \/ \E h \in Handlers, s \in Servers, p \in Players : RecvConnect(h, s, p)
    \/ \E h \in Handlers : ConnectCreate(h)
    \/ \E h \in Handlers : ConnectCreateStats(h)
    \/ \E h \in Handlers : ConnectReload(h)
    \/ \E h \in Handlers : Save(h)
    \/ \E h \in Handlers : LogSync(h)
    \/ \E h \in Handlers, s \in Servers, doc \in FlagDocs : RecvSync(h, s, doc)
    \/ \E h \in Handlers : TxEnd(h)

SpecFlag == Running /\ [][NextFlag]_vars

\* ------------------------------------------------------------ HTTP surface

\* process.env.SYNC_API_KEY, as the API tests set it
SYNC_API_KEY == "dev-sync-api-key-12345"

\* values of the X-API-Key header: absent, empty, a wrong key, the key
ApiKeys == {NULL, "", "wrong-key", SYNC_API_KEY}

\* mutant: any key that is present is accepted
requireApiKey_anyKey(apiKey, expectedKey) ==
    IF expectedKey \in {NULL, ""}
    THEN [status |-> 500, error |-> "Server configuration error"]
    ELSE IF apiKey \in {NULL, ""}
    THEN [status |-> 401, error |-> "Missing API key"]
    ELSE [status |-> 0, error |-> NULL]

\* requireApiKey: the status it answers with, or 0 when it calls next()
requireApiKey(apiKey, expectedKey) ==
    IF expectedKey \in {NULL, ""}
    THEN [status |-> 500, error |-> "Server configuration error"]
    ELSE IF apiKey \in {NULL, ""}
    THEN [status |-> 401, error |-> "Missing API key"]
    ELSE IF apiKey # expectedKey
    THEN [status |-> 403, error |-> "Invalid API key"]
    ELSE [status |-> 0, error |-> NULL]

\* res.status(status).json({error})
Response(status, error) ==
    [Frame("http", NULL, NULL) EXCEPT !.status = status, !.error = error]

\* syncPlayer: the idempotent upsert of one player document
syncPlayer(table, doc) ==
    [table EXCEPT ![doc.steamId] =
        ApplySync(IF @.exists THEN @ ELSE NewRow, {"sync_seq"}, doc)]

\* syncBatch: syncPlayer for each entry, in order
RECURSIVE syncBatch(_, _)
syncBatch(table, list) ==
    IF list = <<>> THEN table
    ELSE syncBatch(syncPlayer(table, Head(list)), Tail(list))

\* request bodies of POST /player: documents of known and of new players,
\* and one of the wrong version
RestDocs ==
    { Doc(2, a, q, stats, NoTracking) :
        a \in Accounts, q \in {1, 2}, stats \in {ZeroStats, [ZeroStats EXCEPT !.xp = 100]} }

RestBodies == RestDocs \cup { Doc(1, a, 1, ZeroStats, NoTracking) : a \in Accounts }

\* the players arrays of POST /batch: empty, of one or two documents, and
\* of one more than the route accepts
RestLists ==
    UNION { [1..n -> { d \in RestDocs : d.syncSeq = 2 }] : n \in 0..MaxBatch }
    \cup OversizedBatches

\* POST /api/sync/player: requireApiKey, validation, syncPlayer
PostPlayer(apiKey, body) ==
    /\ Quiet
    /\ LET auth == requireApiKey(apiKey, SYNC_API_KEY)
       IN  IF auth.status # 0
           THEN /\ Emit(Response(auth.status, auth.error))
                /\ UNCHANGED players
           ELSE IF ~validateV2Format(body).valid
           THEN /\ Emit(Response(400, "Validation failed"))
                /\ UNCHANGED players
           ELSE /\ players' = syncPlayer(players, body)
                /\ Emit(Response(200, NULL))
    /\ UNCHANGED <<now, audit, authenticated, gameServers, connServerId,
                   pc, req, inst, pend, batch>>

\* POST /api/sync/batch: requireApiKey, the checks of the array, syncBatch
PostBatch(apiKey, list) ==
    /\ Quiet
    /\ LET auth == requireApiKey(apiKey, SYNC_API_KEY)
       IN  IF auth.status # 0
           THEN /\ Emit(Response(auth.status, auth.error))
                /\ UNCHANGED players
           ELSE IF Len(list) = 0
           THEN /\ Emit(Response(400, "Empty players array"))
                /\ UNCHANGED players
           ELSE IF Len(list) > BATCH_LIMIT
           THEN /\ Emit(Response(400, "Too many players. Maximum 100 per batch"))
                /\ UNCHANGED players
           ELSE /\ players' = syncBatch(players, list)
                /\ Emit(Response(200, NULL))
    /\ UNCHANGED <<now, audit, authenticated, gameServers, connServerId,
                   pc, req, inst, pend, batch>>

\* requests arrive with and without the key
NextRest ==
    \/ Deliver
    \/ \E apiKey \in ApiKeys, body \in RestBodies : PostPlayer(apiKey, body)
    \/ \E apiKey \in ApiKeys, list \in RestLists : PostBatch(apiKey, list)

SpecRest == Running /\ [][NextRest]_vars

\* the stats the delta check compares
DeltaFields == DOMAIN DELTA_LIMITS

\* stored stats: all zero, or 5 in every field
StoredStats == { [f \in DOMAIN ZeroStats |-> n] : n \in {0, 5} }

\* the stats of a document sent over stored stats: each compared field is
\* lower by one (where it can be), equal, higher by its limit, or higher by
\* its limit and one
Change(f, how) ==
    CASE how = "less" -> -1
      [] how = "same" -> 0
      [] how = "limit" -> DELTA_LIMITS[f]
      [] how = "over" -> DELTA_LIMITS[f] + 1

SentStats(old) ==
    { [f \in DOMAIN ZeroStats |->
          IF f \in DeltaFields THEN old[f] + Change(f, how[f]) ELSE old[f]] :
        how \in { c \in [DeltaFields -> {"less", "same", "limit", "over"}] :
                    \A f \in DeltaFields : old[f] + Change(f, c[f]) >= 0 } }

\* a handler holds a stored player and a document and is about to compare
\* them
Comparing ==
    /\ now = 0
    /\ players = [p \in Players |-> BareRow]
    /\ audit = <<>>
    /\ authenticated = [s \in Servers |-> TRUE]
    /\ gameServers = [s \in Servers |-> Registered]
    /\ connServerId = [s \in Servers |-> s]
    /\ pc = [h \in Handlers |-> IF h = 1 THEN "delta" ELSE "idle"]
    /\ \E p \in Players, old \in StoredStats :
          /\ inst = [h \in Handlers |-> IF h = 1 THEN [BareRow EXCEPT !.stats = old] ELSE NoRow]
          /\ \E new \in SentStats(old) :
                req = [h \in Handlers |->
                        IF h = 1
                        THEN [NoReq EXCEPT !.op = "sync", !.steamId = p,
                                           !.doc = Doc(2, p, 2, new, NoTracking)]
                        ELSE NoReq]
    /\ pend = [h \in Handlers |-> NoPend]
    /\ batch = [h \in Handlers |-> NoBatch]
    /\ emitted = NoFrame
    /\ PluginAtRest

\* const deltaCheck = checkDeltaLimits(dbToV2Player(player), data)
ApplyDeltaLimits(h) ==
    /\ pc[h] = "delta"
    /\ pc' = [pc EXCEPT ![h] = "checked"]
    /\ LET deltaCheck == checkDeltaLimits(dbToV2Player(inst[h]), req[h].doc)
       IN  pend' = [pend EXCEPT ![h] =
                [Pend("checked") EXCEPT !.flagged = deltaCheck.flagged,
                                        !.flagReason = deltaCheck.reasons]]
    /\ UNCHANGED <<now, players, audit, authenticated, gameServers, connServerId,
                   req, inst, batch>>
    /\ NoEmit

NextDelta == \E h \in Handlers : ApplyDeltaLimits(h)

SpecDelta == Comparing /\ [][NextDelta]_vars

\* ------------------------------------------------------------------- claims

\* audit rows that give steamId to a server, or take it from one
Grants(steamId) ==
    { i \in 1..Len(audit) : audit[i].kind = "connect" /\ audit[i].steamId = steamId }

Releases(steamId) ==
    { i \in 1..Len(audit) :
        audit[i].kind \in {"disconnect", "crash_recovery"} /\ audit[i].steamId = steamId }

\* C1: a Connect race has one winner. No server is answered player:data for
\* a player that another server was given less than 30 s earlier and has not
\* released.
C1_OneWinner ==
    (emitted.ev = "player:data" /\ now < ACTIVE_SERVER_TIMEOUT
        /\ Releases(emitted.steamId) = {})
    => \A i \in Grants(emitted.steamId) : audit[i].server = emitted.to

\* a document the connector's validation lets through
PassesValidation(doc) == validateV2Format(doc).valid

\* the step of slot h that ends its transaction
EndsTx(h) == pc[h] = "tx" /\ pc'[h] # "tx"

\* in this step slot h takes up a frame, or a frame is answered at once
Arrives(h) == Quiet /\ Free(h) /\ (pc'[h] # "idle" \/ emitted' # NoFrame)

\* server s sends a valid document for an existing player it owns
FromOwner(s, doc) ==
    /\ authenticated[s]
    /\ players[doc.steamId].exists
    /\ players[doc.steamId].active_server_id = s
    /\ PassesValidation(doc)

\* another server holds a session on p that is less than 30 s old
OwnedElsewhere(s, p) ==
    /\ players[p].exists
    /\ players[p].active_server_id \notin {NULL, s}
    /\ players[p].active_since # NoTime
    /\ now - players[p].active_since < ACTIVE_SERVER_TIMEOUT

\* another server's session on p is 30 s old or older
ExpiredElsewhere(s, p) ==
    /\ players[p].exists
    /\ players[p].active_server_id \notin {NULL, s}
    /\ players[p].active_since # NoTime
    /\ now - players[p].active_since >= ACTIVE_SERVER_TIMEOUT

C5_ActiveElsewhere ==
    [][\A h \in Handlers, s \in Servers, p \in Players :
          (/\ Arrives(h)
           /\ authenticated[s] /\ OwnedElsewhere(s, p)
           /\ RecvConnect(h, s, p))
          => (/\ emitted' = [Frame("player:wait", s, p) EXCEPT
                                !.activeServer = players[p].active_server_id,
                                !.retryAfterMs = 2000,
                                !.maxRetries = 5]
              /\ players' = players
              /\ audit' = audit
              /\ pc'[h] = "idle")]_vars

\* a server was told to wait 29 999 ms after the owner's session began
C5_Waiting ==
    /\ emitted.ev = "player:wait"
    /\ emitted.activeServer = players[emitted.steamId].active_server_id
    /\ emitted.activeServer # emitted.to
    /\ now - players[emitted.steamId].active_since = ACTIVE_SERVER_TIMEOUT - 1

\* C6 as stated: a Disconnect of the owner that passed validation, the
\* ownership check and the sequence check ends with the player's lock
\* cleared.
C6_DisconnectReleases ==
    [][\A h \in Handlers :
          (EndsTx(h) /\ req[h].op = "disconnect" /\ pend[h].passed)
          => (/\ players'[req[h].steamId].active_server_id = NULL
              /\ players'[req[h].steamId].active_since = NoTime)]_vars

\* C7 as stated: a PeriodicSync that passed shape validation, the ownership
\* check and the sequence check is not answered with an error.
C7_PassingSyncSucceeds ==
    ~(emitted.ev = "sync:error" /\ emitted.passed)

\* C8 as stated: a PeriodicSync of the owner is rejected with invalid_sync_seq
\* and expectedSeq = S when D < S or D - S > 10, and is accepted when D - S
\* is exactly 10; the step writes nothing.
C8_SequenceWindow ==
    [][\A h \in Handlers, s \in Servers, doc \in Docs :
          (Arrives(h) /\ FromOwner(s, doc) /\ RecvSync(h, s, doc))
          => LET S == players[doc.steamId].sync_seq
                 D == doc.syncSeq
             IN  /\ players' = players
                 /\ IF D < S \/ D - S > 10
                    THEN /\ pend'[h].error = "invalid_sync_seq"
                         /\ pend'[h].expectedSeq = S
                    ELSE D - S = 10 => pend'[h].kind = "commit"]_vars

\* C9 as stated: a valid PeriodicSync or Disconnect for an existing player
\* that the calling server does not own is rejected with not_session_owner
\* naming the current owner, and the step writes nothing.
C9_NotSessionOwner ==
    [][\A h \in Handlers, s \in Servers, doc \in Docs :
          (/\ Arrives(h)
           /\ authenticated[s]
           /\ players[doc.steamId].exists
           /\ players[doc.steamId].active_server_id # s
           /\ PassesValidation(doc)
           /\ RecvSync(h, s, doc) \/ RecvDisconnect(h, s, doc))
          => (/\ pend'[h].error = "not_session_owner"
              /\ pend'[h].activeServer = players[doc.steamId].active_server_id
              /\ players' = players)]_vars

\* C10: a Connect from another server 30 s or more after the session began
\* claims the player: the handler goes on to save activeServerId = the
\* requesting server and activeSince = now, and the save writes both.
C10_ExpiredSessionClaimed ==
    [][/\ \A h \in Handlers, s \in Servers, p \in Players :
            (/\ Arrives(h)
             /\ authenticated[s] /\ ExpiredElsewhere(s, p)
             /\ RecvConnect(h, s, p))
            => (/\ pc'[h] = "save"
                /\ inst'[h].active_server_id = s
                /\ inst'[h].active_since = now
                /\ pend'[h].cols = {"active_server_id", "active_since"})
       /\ \A h \in Handlers :
            (Save(h) /\ req[h].op = "connect"
                /\ pend[h].cols = {"active_server_id", "active_since"})
            => (/\ players'[req[h].steamId].active_server_id = req[h].server
                /\ players'[req[h].steamId].active_since = inst[h].active_since
                /\ pc'[h] = "log")]_vars

\* a Connect passed the check exactly 30 000 ms after another server's
\* session began
C10_ClaimedAtTimeout ==
    \E h \in Handlers :
        /\ pc[h] = "save"
        /\ req[h].op = "connect"
        /\ inst[h].active_since = now
        /\ players[req[h].steamId].active_server_id \notin {NULL, req[h].server}
        /\ now - players[req[h].steamId].active_since = ACTIVE_SERVER_TIMEOUT

\* the owner of p, a server other than s, has sent a PeriodicSync for p that
\* passed validation, the ownership check and the sequence check less than
\* 30 s ago and is still being processed
OwnerSyncedRecently(s, p) ==
    /\ players[p].exists
    /\ players[p].active_server_id \notin {NULL, s}
    /\ players[p].active_since # NoTime
    /\ \E g \in Handlers :
          /\ req[g].op = "sync"
          /\ req[g].steamId = p
          /\ req[g].server = players[p].active_server_id
          /\ pend[g].passed
          /\ req[g].at # NoTime
          /\ now - req[g].at < ACTIVE_SERVER_TIMEOUT

Connected(s, p) ==
    \E i \in 1..Len(audit) :
        audit[i].kind = "connect" /\ audit[i].server = s /\ audit[i].steamId = p

\* C12: when a server's connection drops, the same step clears
\* activeServerId and activeSince of every player pinned to that server, so
\* that none is owned by it afterwards, and leaves every other row as it was.
C12_SweepClearsServer ==
    [][\A s \in Servers :
          SocketDisconnect(s) =>
              \A p \in Accounts :
                  /\ players'[p].active_server_id # s
                  /\ IF players[p].exists /\ players[p].active_server_id = s
                     THEN players'[p] = [players[p] EXCEPT !.active_server_id = NULL,
                                                           !.active_since = NoTime]
                     ELSE players'[p] = players[p]]_vars

\* two servers had each been given a player; one of them has dropped its
\* connection, its player is free and the other server's player is still held
C12_Swept ==
    \E s, t \in Servers, p, q \in Accounts :
        /\ s # t /\ p # q
        /\ Connected(s, p) /\ Connected(t, q)
        /\ ~authenticated[s] /\ authenticated[t]
        /\ players[p].active_server_id = NULL /\ players[p].active_since = NoTime
        /\ players[q].active_server_id = t

\* C13 as stated: a Connect that was received before its server's connection
\* dropped and saves after the sweep does not pin the player to that server.
C13_DropCancelsInFlight ==
    [][\A h \in Handlers :
          (/\ Save(h)
           /\ req[h].op = "connect"
           /\ ~authenticated[req[h].server])
          => players'[req[h].steamId].active_server_id # req[h].server]_vars

\* C14 as stated: a player's activeServerId, when not null, names a
\* registered game server whose active flag is set (or whose deactivation is
\* about to sweep its players), and the player's activeSince is not null.
C14_OwnerIsActiveServer ==
    \A p \in Accounts :
        players[p].active_server_id # NULL =>
            /\ players[p].active_server_id \in Servers
            /\ \/ gameServers[players[p].active_server_id].is_active
               \/ gameServers[players[p].active_server_id].sweeping
            /\ players[p].active_since # NoTime

\* the two columns of the session lock
Lock(row) == <<row.active_server_id, row.active_since>>

\* C15: a step that changes a player's activeServerId or activeSince is the
\* save of a Connect for that player, which sets them to the connecting
\* server and the time of the Connect, or it clears both and is the commit of
\* a Disconnect, the save of a CrashRecovery, or a sweep of the server that
\* held the player; every step of a PeriodicSync leaves both as they were.
C15_LockWriters ==
    [][/\ \A p \in Accounts :
            Lock(players'[p]) # Lock(players[p]) =>
                \/ \E h \in Handlers :
                      /\ Save(h) /\ req[h].op = "connect" /\ req[h].steamId = p
                      /\ players'[p].active_server_id = req[h].server
                      /\ players'[p].active_since = inst[h].active_since
                \/ /\ Lock(players'[p]) = <<NULL, NoTime>>
                   /\ \/ \E h \in Handlers :
                            /\ TxEnd(h) /\ req[h].op = "disconnect" /\ req[h].steamId = p
                      \/ \E h \in Handlers :
                            /\ Save(h) /\ req[h].op = "recovery" /\ req[h].steamId = p
                      \/ \E s \in Servers :
                            /\ players[p].active_server_id = s
                            /\ SocketDisconnect(s) \/ DeactivateSweep(s)
       /\ \A h \in Handlers :
            (\/ EndsTx(h) /\ req[h].op = "sync"
             \/ Arrives(h) /\ (req'[h].op = "sync" \/ emitted'.ev = "sync:error"))
            => \A p \in Accounts : Lock(players'[p]) = Lock(players[p])]_vars

\* a PeriodicSync of the owner ended while the player was locked, and the
\* lock is as the owner's Connect set it
C15_SyncedUnderLock ==
    /\ emitted.ev = "sync:error"
    /\ emitted.passed
    /\ players[emitted.steamId].active_server_id = emitted.to
    /\ players[emitted.steamId].active_since = 0
    /\ Connected(emitted.to, emitted.steamId)

\* C16 as stated: a valid CrashRecovery whose syncSeq is lower than the
\* stored one is answered recovery:ack with skipped = true, and the step
\* writes nothing.
C16_StaleRecoverySkipped ==
    [][\A h \in Handlers, s \in Servers, doc \in Docs :
          (/\ Arrives(h)
           /\ authenticated[s]
           /\ players[doc.steamId].exists
           /\ doc.syncSeq < players[doc.steamId].sync_seq
           /\ PassesValidation(doc)
           /\ RecvRecovery(h, s, doc))
          => (/\ emitted'.ev = "recovery:ack"
              /\ emitted'.skipped
              /\ players' = players
              /\ audit' = audit)]_vars

\* C17 as stated: a valid CrashRecovery for an existing player whose syncSeq
\* D is not lower than the stored S is not rejected: it goes on to write, it
\* is flagged when D - S > 100, and when it has been logged the stored
\* syncSeq is D.
C17_RecoveryCommits ==
    [][\A h \in Handlers, s \in Servers, doc \in Docs :
          (/\ Arrives(h)
           /\ authenticated[s]
           /\ players[doc.steamId].exists
           /\ doc.syncSeq >= players[doc.steamId].sync_seq
           /\ PassesValidation(doc)
           /\ RecvRecovery(h, s, doc))
          => (/\ emitted'.ev # "recovery:error"
              /\ pc'[h] = "save"
              /\ req'[h].doc.syncSeq = doc.syncSeq
              /\ pend'[h].flagged
                    = (doc.syncSeq - players[doc.steamId].sync_seq > 100))]_vars

\* C18 as stated: a valid CrashRecovery for an existing player that is not
\* stale first clears the player's lock, and when its writes are committed
\* the player is owned by no server.
C18_LockClearedBeforeWrites ==
    [][/\ \A h \in Handlers, s \in Servers, doc \in Docs :
            (/\ Arrives(h)
             /\ authenticated[s]
             /\ players[doc.steamId].exists
             /\ doc.syncSeq >= players[doc.steamId].sync_seq
             /\ PassesValidation(doc)
             /\ RecvRecovery(h, s, doc))
            => (/\ pc'[h] = "save"
                /\ Lock(inst'[h]) = <<NULL, NoTime>>)
       /\ \A h \in Handlers :
            (EndsTx(h) /\ req[h].op = "recovery" /\ pend[h].kind = "commit")
            => Lock(players'[req[h].steamId]) = <<NULL, NoTime>>]_vars

\* C19 as stated: a valid Disconnect of the owner that carries a tracking
\* section and an in-sequence syncSeq is accepted: it is not answered with an
\* error and goes on to write the document, tracking included.
C19_TrackingAccepted ==
    [][\A h \in Handlers, s \in Servers, doc \in Docs :
          (/\ Arrives(h)
           /\ doc.tracking.present
           /\ FromOwner(s, doc)
           /\ validateSyncSequence(players[doc.steamId].sync_seq, doc.syncSeq,
                                   SEQ_TOLERANCE).valid
           /\ RecvDisconnect(h, s, doc))
          => (/\ emitted'.ev # "disconnect:error"
              /\ pend'[h].kind = "commit"
              /\ req'[h].doc.tracking = doc.tracking)]_vars

\* the answer a single CrashRecovery for doc gets in the current state
SingleRecoverySucceeds(doc) ==
    /\ validateV2Format(doc).valid
    /\ validateV2PlayerFormat(doc).valid
    /\ ~(doc.tracking.present /\ ~validateV2TrackingFormat(Bare(doc.tracking)).valid)
    /\ RecoveryDecision(players[doc.steamId], doc).kind \in {"skip", "save"}

C21_OversizedNotProcessed ==
    \A h \in Handlers :
        batch[h].total > BATCH_LIMIT => batch[h].results = <<>>

\* C22 as stated: every entry of a batch recovery that gets its result is
\* answered with a recovery:ack or recovery:error frame of its own, and
\* batch-recovery:complete is emitted only when no entry is left.
C22_PerEntryEvents ==
    [][\A h \in Handlers :
          /\ (BatchEntry(h) /\ pc'[h] = "batch") =>
                /\ emitted'.ev \in {"recovery:ack", "recovery:error"}
                /\ emitted'.steamId = Head(batch[h].todo).steamId
          /\ (emitted'.ev = "batch-recovery:complete" /\ BatchComplete(h)) =>
                /\ batch[h].todo = <<>>
                /\ Len(batch[h].results) = batch[h].total]_vars

\* the half of C22 that the handler keeps: the summary comes after the last
\* entry has its result
C22_CompleteComesLast ==
    [][\A h \in Handlers :
          (emitted'.ev = "batch-recovery:complete" /\ BatchComplete(h)) =>
                /\ batch[h].todo = <<>>
                /\ Len(batch[h].results) = batch[h].total]_vars

\* the step of slot h that makes its data change durable: the save() of a
\* Connect, or the commit of a transaction
Commits(h) ==
    \/ Save(h) /\ req[h].op = "connect"
    \/ TxEnd(h) /\ pend[h].kind = "commit"

\* slot g made its change to the player before slot h did, and its audit
\* row is still to be written
CommittedBefore(g, h) ==
    /\ g # h
    /\ pc[g] = "log" /\ pc[h] = "log"
    /\ req[g].steamId = req[h].steamId
    /\ req[g].server # req[h].server
    /\ players[req[h].steamId].active_server_id = req[h].server

\* C23 as stated: the step that commits a change also inserts the audit row
\* that describes it, an audit row is inserted by no other step, and no
\* operation's row is inserted while an operation on the same player that
\* committed earlier has yet to get its row.
C23_AuditedInTransaction ==
    [][/\ \A h \in Handlers :
            Commits(h) =>
                /\ Len(audit') = Len(audit) + 1
                /\ audit'[Len(audit')].steamId = req[h].steamId
                /\ audit'[Len(audit')].server = req[h].server
       /\ Len(audit') > Len(audit) => \E h \in Handlers : Commits(h)
       /\ \A g, h \in Handlers : LogSync(h) => ~CommittedBefore(g, h)]_vars

\* the order half of C23 on its own
C23_InsertionOrderIsCommitOrder ==
    [][\A g, h \in Handlers : LogSync(h) => ~CommittedBefore(g, h)]_vars

\* the frames that answer a PeriodicSync, a Disconnect or a CrashRecovery
SyncAnswers ==
    {"sync:ack", "sync:error", "disconnect:ack", "disconnect:error",
     "recovery:ack", "recovery:error"}

\* the errors the connector answers with before it calls the engine
ConnectorErrors == {"Server not authenticated", "validation_failed"}

\* C24 as stated: the step in which the engine's answer to a sync attempt is
\* sent (accepted, rejected or skipped) leaves an audit row for that player
\* at the end of the log.
C24_EveryAttemptAudited ==
    [][(emitted'.ev \in SyncAnswers /\ emitted'.error \notin ConnectorErrors) =>
            /\ Len(audit') = Len(audit) + 1
            /\ audit'[Len(audit')].steamId = emitted'.steamId]_vars

\* C24 for the rejections of the engine's own checks
C24_RejectionsAudited ==
    [][(/\ emitted'.ev \in SyncAnswers
        /\ emitted'.error \in {"player_not_found", "not_session_owner", "invalid_sync_seq"}) =>
            /\ Len(audit') = Len(audit) + 1
            /\ audit'[Len(audit')].steamId = emitted'.steamId]_vars

\* the answer to a frame of server s that is refused for want of
\* authentication: the error frame and nothing else
Refused(ev, s) ==
    /\ emitted'.ev = ev
    /\ emitted'.to = s
    /\ emitted'.error = "Server not authenticated"
    /\ UNCHANGED <<now, players, audit, authenticated, gameServers, connServerId,
                   pc, req, inst, pend, batch>>

StoredDocument(p) == [dbToV2Player(players[p]) EXCEPT !.steamId = p]

\* C26 as stated: the player:data frame that answers a Connect carries in
\* its data field the v2 document of the player's stored row, without a
\* tracking section, and in syncSeq the stored sync_seq.
C26_DataIsStoredDocument ==
    [][\A h \in Handlers :
          (LogSync(h) /\ req[h].op = "connect") =>
              /\ emitted'.ev = "player:data"
              /\ emitted'.syncSeq = players[req[h].steamId].sync_seq
              /\ emitted'.data = StoredDocument(req[h].steamId)
              /\ ~emitted'.data.tracking.present]_vars

\* the part of C26 the frame does carry: the stored syncSeq
C26_SyncSeqIsStored ==
    [][\A h \in Handlers :
          (LogSync(h) /\ req[h].op = "connect") =>
              /\ emitted'.ev = "player:data"
              /\ emitted'.syncSeq = players[req[h].steamId].sync_seq]_vars

\* the document of a player that has only just been created
DefaultDocument(p) == Doc(2, p, 0, ZeroStats, NoTracking)

\* the creating half of C27: Player.create stores a row with syncSeq 0 and
\* no owner, PlayerStats.create gives it the default stats, and the save()
\* of a Connect that read the new row makes the requesting server its owner
C27_CreatesDefaults ==
    [][\A h \in Handlers :
          /\ (ConnectCreate(h) /\ ~players[req[h].steamId].exists) =>
                players'[req[h].steamId] = NewRow
          /\ ConnectCreateStats(h) =>
                /\ players'[req[h].steamId].sync_seq = 0
                /\ players'[req[h].steamId].hasStats
                /\ players'[req[h].steamId].stats = ZeroStats
          /\ (Save(h) /\ req[h].op = "connect" /\ inst[h].sync_seq = 0
                /\ players[req[h].steamId].active_server_id = NULL) =>
                players'[req[h].steamId].active_server_id = req[h].server]_vars

\* C27 as stated: a Connect for a steamId with no row creates one row with
\* syncSeq 0 and default stats, makes the requesting server the owner, and
\* is answered player:data with syncSeq 0 and the all-defaults document.
C27_NewPlayerDefaults ==
    [][\A h \in Handlers :
          /\ (ConnectCreate(h) /\ ~players[req[h].steamId].exists) =>
                players'[req[h].steamId] = NewRow
          /\ ConnectCreateStats(h) =>
                /\ players'[req[h].steamId].sync_seq = 0
                /\ players'[req[h].steamId].hasStats
                /\ players'[req[h].steamId].stats = ZeroStats
          /\ (Save(h) /\ req[h].op = "connect" /\ inst[h].sync_seq = 0
                /\ players[req[h].steamId].active_server_id = NULL) =>
                players'[req[h].steamId].active_server_id = req[h].server
          /\ (LogSync(h) /\ req[h].op = "connect" /\ inst[h].sync_seq = 0) =>
                /\ emitted'.ev = "player:data"
                /\ emitted'.syncSeq = 0
                /\ emitted'.data = DefaultDocument(req[h].steamId)]_vars

\* the {slot, item, count} of each entry of a loadout list, in order
Entries(loadout) ==
    [i \in 1..Len(loadout) |->
        [slot |-> loadout[i].slot, item |-> loadout[i].item, count |-> loadout[i].count]]

NextOfStored(doc) ==
    /\ players[doc.steamId].exists
    /\ doc = [StoredDocument(doc.steamId) EXCEPT !.syncSeq = @ + 1]

\* C29 as stated: the owner's PeriodicSync of the stored document with the
\* next syncSeq goes on to commit, so does its Disconnect with the syncSeq
\* after that, and when the Disconnect commits the document exported from
\* the stored row is the document it sent.
C29_RoundTrip ==
    [][/\ \A h \in Handlers, s \in Servers, doc \in RoundTripDocs :
            (/\ Arrives(h)
             /\ FromOwner(s, doc)
             /\ NextOfStored(doc)
             /\ RecvSync(h, s, doc) \/ RecvDisconnect(h, s, doc))
            => pend'[h].kind = "commit"
       /\ \A h \in Handlers :
            (EndsTx(h) /\ req[h].op = "disconnect" /\ pend[h].kind = "commit")
            => [dbToV2Player(players'[req[h].steamId]) EXCEPT !.steamId = req[h].steamId]
                   = req[h].doc]_vars

\* a frame of the operation's error event that reports validation_failed
\* to the sender, with nothing stored, audited or started
RejectedAsMalformed(ev, s, doc) ==
    /\ emitted' = [Frame(ev, s, doc.steamId) EXCEPT !.error = "validation_failed"]
    /\ UNCHANGED <<players, audit, pc, req, inst, pend, batch>>

DbErrorFrame(op, s, steamId) ==
    [Frame(ErrorEvent(op), s, steamId) EXCEPT !.error = DbError, !.syncSeq = -1]

ResponseKinds(op) ==
    CASE op = "connect" -> {"player:data", "player:wait", "player:error"}
      [] op = "sync" -> {"sync:ack", "sync:error"}
      [] op = "disconnect" -> {"disconnect:ack", "disconnect:error"}
      [] OTHER -> {"recovery:ack", "recovery:error"}

\* the step answers server s about steamId with one frame listed for op
Answers(op, s, steamId) ==
    /\ emitted'.ev \in ResponseKinds(op)
    /\ emitted'.to = s
    /\ emitted'.steamId = steamId

\* the frame that arrives in this step is either answered in the step and
\* no handler is left running, or it is not answered and slot h runs on
AnsweredOrRunning(h, op, s, steamId) ==
    \/ pc'[h] = "idle" /\ Answers(op, s, steamId)
    \/ pc'[h] # "idle" /\ emitted' = NoFrame /\ req'[h].op = op
                        /\ req'[h].server = s /\ req'[h].steamId = steamId

WaitFor(i, n) ==
    /\ kothBotSocket
    /\ i \in 1..Len(wire)
    /\ wire[i].ev = "player:connect"
    /\ pendingRequests[wire[i].steamId] # NoPending
    /\ pendingRequests[wire[i].steamId].retryCount = n

\* what holds of the retries while a request is pending: a player:wait
\* below maxRetries sets a timer for retryAfterMs later, the timer sends
\* player:connect, no request has more than maxRetries player:connect
\* frames, and the maxRetries-th player:wait rejects the request
C33_RetriesBounded ==
    [][/\ \A i \in 1..MaxRequests * SERVER_HOP_MAX_RETRIES, n \in 0..SERVER_HOP_MAX_RETRIES :
            (WaitFor(i, n) /\ PlayerWait(i, SERVER_HOP_RETRY_DELAY, SERVER_HOP_MAX_RETRIES))
            => LET p == wire[i].steamId
                   id == pendingRequests[p].id
               IN  IF n + 1 < SERVER_HOP_MAX_RETRIES
                   THEN /\ Timer("retry", p, id, n + 1, clock + SERVER_HOP_RETRY_DELAY) \in timers'
                        /\ promises'[id].state = "pending"
                   ELSE /\ promises'[id].state = "rejected"
                        /\ promises'[id].reason = "retries"
                        /\ pendingRequests'[p] = NoPending
       /\ \A t \in timers :
            (TimerFires(t) /\ t.kind = "retry" /\ isConnected
                /\ promises[t.id].state = "pending")
            => /\ t.due <= clock
               /\ wire' = Append(wire, WireFrame("player:connect", t.steamId, t.id, NoFile))
       /\ \A id \in Requests : promises'[id].connects <= SERVER_HOP_MAX_RETRIES]_vars

\* C33 as stated: the above, and once a request is settled no further
\* player:connect is sent for it.
C33_RetryProtocol ==
    [][/\ \A i \in 1..MaxRequests * SERVER_HOP_MAX_RETRIES, n \in 0..SERVER_HOP_MAX_RETRIES :
            (WaitFor(i, n) /\ PlayerWait(i, SERVER_HOP_RETRY_DELAY, SERVER_HOP_MAX_RETRIES))
            => LET p == wire[i].steamId
                   id == pendingRequests[p].id
               IN  IF n + 1 < SERVER_HOP_MAX_RETRIES
                   THEN Timer("retry", p, id, n + 1, clock + SERVER_HOP_RETRY_DELAY) \in timers'
                   ELSE promises'[id].state = "rejected"
       /\ \A id \in Requests :
            /\ promises'[id].connects <= SERVER_HOP_MAX_RETRIES
            /\ promises[id].state \in {"resolved", "rejected"}
               => promises'[id].connects = promises[id].connects]_vars

\* the only request of the run has timed out while the retry timer of a
\* late player:wait is still set and the service connected
C33_RetryTimerOutlivesRequest ==
    /\ promises[1].state = "rejected"
    /\ promises[1].reason = "Request timeout"
    /\ promises[2].state = "unissued"
    /\ isConnected
    /\ \E t \in timers : t.kind = "retry" /\ t.id = 1

\* the promise has been resolved or rejected
Settled(id) == promises[id].state \in {"resolved", "rejected"}

InBatch(p) ==
    \E i \in 1..Len(wire) :
        wire[i].ev = "player:batch-crash-recovery" /\ \E e \in wire[i].entries : e.steamId = p

\* a v2 file on disk that belongs to no player of this run
Orphaned(p) ==
    /\ files[p].present
    /\ files[p].v = 2
    /\ ~activePlayers[p].present
    /\ p \notin online
    /\ pendingRequests[p] = NoPending

\* C35, first half: an orphaned v2 file found by a mounted plugin is
\* eventually sent in a batch recovery frame (unless the file goes, its
\* player joins or the plugin is unmounted first)
C35_OrphansSent ==
    \A p \in Players :
        (mounted # "unmounted" /\ Orphaned(p)) ~> (InBatch(p) \/ ~Orphaned(p) \/ mounted = "unmounted")

\* C35, second half: when the service reports an entry of the batch as
\* recovered, the entry's file is deleted
C35_RecoveredDeleted ==
    [][\A i \in 1..MaxWire, recovered \in SUBSET Players :
          BatchRecoveryComplete(i, recovered)
              => \A e \in wire[i].entries : e.steamId \in recovered => ~files'[e.steamId].present]_vars

\* C35: after a restart every orphaned v2 file is eventually sent to the
\* service for crash recovery, also when the service connects only after
\* the plugin has mounted, and is deleted once the service has recovered it
C35_OrphansRecovered == C35_OrphansSent /\ C35_RecoveredDeleted

\* the scan is over, the service is connected, and the orphaned file was
\* never sent
C35_ConnectedAfterScan ==
    /\ mounted = "mounted"
    /\ isConnected
    /\ wire = <<>>
    /\ \E p \in Players : Orphaned(p) /\ sessions[p] = 0

\* this step removes p's file / p's entry in activePlayers
FileRemoved(p) == files[p].present /\ ~files'[p].present

EntryRemoved(p) == activePlayers[p].present /\ ~activePlayers'[p].present

\* the document an acknowledgment for p answers in this step
AckedDocs(p) ==
    { wire[i].doc : i \in { j \in 1..Len(wire) : DisconnectAck(j) /\ wire[j].steamId = p } }
    \cup { e.doc : e \in UNION { wire[i].entries : i \in { j \in 1..Len(wire) : RecoveryAck(j, p) } } }

\* C40: the plugin removes a player's file only when handling an
\* acknowledgment, and the file or activePlayers entry an acknowledgment
\* removes is of the session the acknowledged document was sent in, never
\* of a newer one; on disconnect:error, recovery:error and while the service
\* is unreachable the file is kept
C40_AckOfCurrentDocument ==
    [][\A p \in Players :
          /\ FileRemoved(p) =>
                /\ AckedDocs(p) # {}
                /\ \A doc \in AckedDocs(p) : doc.session = files[p].session
          /\ (EntryRemoved(p) /\ AckedDocs(p) # {}) =>
                \A doc \in AckedDocs(p) : doc.session = activePlayers[p].session]_vars

\* C40 for disconnect:ack alone
C40_DisconnectAckOfCurrent ==
    [][\A p \in Players, i \in 1..MaxWire :
          (DisconnectAck(i) /\ wire[i].steamId = p)
              => /\ FileRemoved(p) => wire[i].doc.session = files[p].session
                 /\ EntryRemoved(p) => wire[i].doc.session = activePlayers[p].session]_vars

\* the Disconnect of the first session is unanswered while the player is
\* back with a file and an entry of the second session
C40_OldDisconnectOutstanding ==
    \E p \in Players, i \in 1..Len(wire) :
        /\ wire[i].ev = "player:disconnect"
        /\ wire[i].steamId = p
        /\ wire[i].doc.session = 1
        /\ sessions[p] = 2
        /\ files[p].present /\ files[p].session = 2
        /\ activePlayers[p].present /\ activePlayers[p].session = 2

\* what does hold: a step that is no acknowledgment removes no file
C40_FileKeptWithoutAck ==
    [][\A p \in Players : FileRemoved(p) => AckedDocs(p) # {}]_vars

\* the limits as the claim states them
StatedLimits ==
    [currency |-> 50000, currencySpent |-> 50000, xp |-> 100000,
     prestige |-> 1, permaTokens |-> 10, timePlayed |-> 7200]

\* what the document of handler h adds to the stored value of a stat
Gain(h, f) == req[h].doc.stats[f] - inst[h].stats[f]

\* the texts of the reasons, by stat
ReasonOf ==
    [currency |-> "Currency gain", currencySpent |-> "Currency spent", xp |-> "XP gain",
     prestige |-> "Prestige gain", permaTokens |-> "Perma tokens gain",
     timePlayed |-> "Time played increase"]

C36_OneOverFlagged ==
    \E h \in Handlers :
        /\ pc[h] = "checked"
        /\ Gain(h, "currency") = 50001
        /\ \A f \in DOMAIN StatedLimits \ {"currency"} : Gain(h, f) <= StatedLimits[f]
        /\ pend[h].flagged

\* C37: a PeriodicSync of the owner, inside the sequence window, that raises
\* stats.currencyTotal by more than 50 000 goes on to commit, flagged, with
\* "Currency gain" among the reasons; and a flagged sync that commits writes
\* the document's stats
C37_FlaggedSyncWritten ==
    [][/\ \A h \in Handlers, s \in Servers, doc \in FlagDocs :
            (/\ Arrives(h)
             /\ FromOwner(s, doc)
             /\ validateSyncSequence(players[doc.steamId].sync_seq, doc.syncSeq,
                                     SEQ_TOLERANCE).valid
             /\ doc.stats.currencyTotal - players[doc.steamId].stats.currencyTotal > 50000
             /\ RecvSync(h, s, doc))
            => (/\ pend'[h].kind = "commit"
                /\ pend'[h].flagged
                /\ \E i \in 1..Len(pend'[h].flagReason) :
                      pend'[h].flagReason[i] = "Currency gain")
       /\ \A h \in Handlers :
            (EndsTx(h) /\ req[h].op = "sync" /\ pend[h].kind = "commit" /\ pend[h].flagged)
            => players'[req[h].steamId].stats = req[h].doc.stats]_vars

\* a sync that raises currencyTotal and leaves currency as it was does not
\* commit unflagged; on this code because no sync commits at all (C7), and
\* no longer once the handler reads the result of checkDeltaLimits as
\* checkDeltaLimits_validShape returns it
C37_TotalAloneFlagged ==
    [][\A h \in Handlers, s \in Servers, doc \in FlagDocs :
          (/\ Arrives(h)
           /\ FromOwner(s, doc)
           /\ doc.stats.currencyTotal - players[doc.steamId].stats.currencyTotal > 50000
           /\ doc.stats.currency = players[doc.steamId].stats.currency
           /\ RecvSync(h, s, doc))
          => pend'[h].kind # "commit" \/ pend'[h].flagged]_vars
\* this step serves a POST to /player or /batch that carries this header
Posted(apiKey) ==
    \/ \E body \in RestBodies : PostPlayer(apiKey, body)
    \/ \E list \in RestLists : PostBatch(apiKey, list)

\* C38: a POST to /api/sync/player or /api/sync/batch without the X-API-Key
\* header is answered 401, one with a wrong key 403, and neither changes
\* any player or audit row; only a request carrying the configured key
\* reaches the sync logic
C38_KeyRequired ==
    [][\A apiKey \in ApiKeys \ {SYNC_API_KEY} :
          Posted(apiKey)
          => (/\ players' = players
              /\ audit' = audit
              /\ emitted'.status \in {401, 403}
              /\ apiKey = NULL => emitted'.status = 401
              /\ apiKey = "wrong-key" => emitted'.status = 403)]_vars

\* a request with the key created the second account, and a request with a
\* wrong key has just been refused
C38_WrongKeyRefused ==
    /\ emitted.ev = "http"
    /\ emitted.status = 403
    /\ players["76561198000000002"].exists

\* p is held by a server other than s, in a session that has not expired
LiveElsewhere(p, s) ==
    /\ p \in DOMAIN players
    /\ players[p].exists
    /\ players[p].active_server_id \notin {NULL, s}
    /\ wasRecentlyActive(players[p], now, ACTIVE_SERVER_TIMEOUT)

====
